---- MODULE Spec2Model ----
(***************************************************************************)
(* A model of the query understanding and routing pipeline of the          *)
(* financial question-answering server (src/server).  Every component is   *)
(* a group of variables with its own specification; a specification        *)
(* leaves the variables of the other components at their idle values.      *)
(*                                                                         *)
(*   SpecKeyword   QueryRouter._simple_analysis as a function of the       *)
(*                 question                                                *)
(*   SpecRouter    QueryRouter.route_query, one request                    *)
(*   SpecSingleton get_query_router / get_classifier under concurrent      *)
(*                 first access                                            *)
(*   SpecRetry     IntentExtractor.extract and QuestionClassifier.classify *)
(*   SpecFilter    DocumentFilter.filter_by_intent on VectorStoreWrapper   *)
(*   SpecRetrieve  Retriever.retrieve and RAGService._retrieve_chunks      *)
(*   SpecSimilarity the similarity of one raw distance                     *)
(*   SpecHorizon   PredictionService._parse_horizon                        *)
(*   SpecRag       RAGService.process_query and the answer generators      *)
(*   SpecPredicate the where predicates of DocumentFilter and RAGService   *)
(*   SpecRouterLive SpecRouter with the request running on to its end      *)
(***************************************************************************)
EXTENDS Integers, Sequences, FiniteSets, TLC

VARIABLES
  \* --- keyword analysis (query_router.py:158-208)
  ka_pc, ka_question, ka_analysis,
  \* --- one request through QueryRouter.route_query (query_router.py:63-372)
  openai_client,      \* "client" or "None": QueryRouter.__init__ lines 50-61
  rq_pc,              \* position of the request in route_query
  rq_question,
  rq_response,        \* what the completion service answered to the analysis prompt
  rq_analysis,        \* the QueryAnalysis of the request
  rq_calls,           \* the collaborator calls made so far, in order
  rq_dispatched,      \* the handlers route_query has called, in order
  rq_unrecovered,     \* where an exception ended in a final except clause
  rq_result,          \* the RouterResult returned
  rq_raised,          \* route_query let an exception reach its caller
  rq_market,          \* what the market side of _handle_mixed_query got back
  \* --- the module-level singletons (smart_query.py:15, answering.py:22)
  sg_handle,          \* the global of each getter: 0 is None, else the instance
  sg_built,           \* per getter, how many instances were constructed
  sg_replaced,        \* per getter, whether a set global was assigned again
  sg_pc,              \* per request, its position in the getter
  sg_getter,          \* per request, the getter it calls
  sg_new,             \* per request, the instance it constructed (0: none)
  sg_got,             \* per request, the instance the getter returned (0: none)
  \* --- one call of IntentExtractor.extract or QuestionClassifier.classify
  rt_component,       \* "extract" or "classify"
  max_retries,        \* self.max_retries
  rt_question,
  rt_pc,              \* position of the call
  rt_attempt,         \* the loop variable attempt
  rt_calls,           \* completion calls made so far
  rt_log,             \* how each attempt so far ended
  rt_last,            \* the completion service's answer to the last call
  rt_result,          \* the value returned
  \* --- one call of DocumentFilter.filter_by_intent
  fl_pc,              \* position of the call
  fl_intent,          \* the ExtractedIntent passed in
  fl_collection,      \* the items stored in the document index
  fl_index_fails,     \* whether the query of the document index fails
  fl_result,          \* the FilterResult returned
  fl_where,           \* the where predicate the index was asked
  \* --- one call of Retriever.retrieve or RAGService._retrieve_chunks
  rv_pc,
  rv_entry,
  rv_documents,
  rv_top_k,
  rv_threshold,
  rv_store,
  rv_engine,
  rv_queries,
  rv_raw,
  rv_result,
  \* --- one computation of the similarity of a raw distance
  sm_pc,
  sm_distance,
  sm_similarity,
  \* --- one call of PredictionService._parse_horizon
  hz_pc,
  hz_today,
  hz_horizon,
  hz_outcome,
  \* --- one call of RAGService._generate_answer or ResponseGenerator.generate_answer
  ga_pc,
  ga_entry,
  ga_chunks,
  ga_client,
  ga_completion,
  ga_calls,
  ga_answer,
  ga_context,         \* the entries of the context put into the prompt
  \* --- one call of RAGService.process_query from the retrieval branch
  rg_pc,
  rg_selected,
  rg_collection,
  rg_store,
  rg_engine,
  rg_client,
  rg_completion,
  rg_calls,
  rg_wheres,
  rg_intent,          \* what _extract_intent returned to _filter_documents
  rg_documents,
  rg_queries,
  rg_result

kaVars == <<ka_pc, ka_question, ka_analysis>>
rqVars == <<openai_client, rq_pc, rq_question, rq_response, rq_analysis, rq_calls,
            rq_dispatched, rq_unrecovered, rq_result, rq_raised, rq_market>>

sgVars == <<sg_handle, sg_built, sg_replaced, sg_pc, sg_getter, sg_new, sg_got>>

rtVars == <<rt_component, max_retries, rt_question, rt_pc, rt_attempt, rt_calls,
            rt_log, rt_last, rt_result>>

flVars == <<fl_pc, fl_intent, fl_collection, fl_index_fails, fl_result, fl_where>>

rvVars == <<rv_pc, rv_entry, rv_documents, rv_top_k, rv_threshold, rv_store, rv_engine, rv_queries, rv_raw, rv_result>>

smVars == <<sm_pc, sm_distance, sm_similarity>>

hzVars == <<hz_pc, hz_today, hz_horizon, hz_outcome>>

gaVars == <<ga_pc, ga_entry, ga_chunks, ga_client, ga_completion, ga_calls, ga_answer,
           ga_context>>

rgVars == <<rg_pc, rg_selected, rg_collection, rg_store, rg_engine, rg_client, rg_completion, rg_calls, rg_wheres, rg_intent,
           rg_documents, rg_queries, rg_result>>

vars == <<kaVars, rqVars, sgVars, rtVars, flVars, rvVars, smVars, hzVars, gaVars, rgVars>>

\* What the actions of one component leave alone: the other components.
KaFrame == UNCHANGED <<rqVars, sgVars, rtVars, flVars, rvVars, smVars, hzVars, gaVars, rgVars>>
RqFrame == UNCHANGED <<kaVars, sgVars, rtVars, flVars, rvVars, smVars, hzVars, gaVars, rgVars>>
SgFrame == UNCHANGED <<kaVars, rqVars, rtVars, flVars, rvVars, smVars, hzVars, gaVars, rgVars>>
RtFrame == UNCHANGED <<kaVars, rqVars, sgVars, flVars, rvVars, smVars, hzVars, gaVars, rgVars>>
FlFrame == UNCHANGED <<kaVars, rqVars, sgVars, rtVars, rvVars, smVars, hzVars, gaVars, rgVars>>
RvFrame == UNCHANGED <<kaVars, rqVars, sgVars, rtVars, flVars, smVars, hzVars, gaVars, rgVars>>
SmFrame == UNCHANGED <<kaVars, rqVars, sgVars, rtVars, flVars, rvVars, hzVars, gaVars, rgVars>>
HzFrame == UNCHANGED <<kaVars, rqVars, sgVars, rtVars, flVars, rvVars, smVars, gaVars, rgVars>>
GaFrame == UNCHANGED <<kaVars, rqVars, sgVars, rtVars, flVars, rvVars, smVars, hzVars, rgVars>>
RgFrame == UNCHANGED <<kaVars, rqVars, sgVars, rtVars, flVars, rvVars, smVars, hzVars, gaVars>>

-----------------------------------------------------------------------------
(* Bounds of the model *)

\* A question is at most MaxPhrases vocabulary phrases joined by blanks.
MaxPhrases == 3
\* The questions of a routed request have at most MaxRouterPhrases phrases.
MaxRouterPhrases == 1
\* Requests that call a singleton getter concurrently.
NumRequests == 2
\* max_retries ranges over 0..MaxRetriesBound (its default is 3).
MaxRetriesBound == 3
\* An intent names at most MaxIntentItems companies and as many years.
MaxIntentItems == 2

-----------------------------------------------------------------------------
(* Character strings.  A string is a sequence of one-character strings, so  *)
(* that lower(), upper(), the substring test and the regular expression of  *)
(* the source are computed on characters.                                   *)

ALPHABET == <<"A","B","C","D","E","F","G","H","I","J","K","L","M","N","O","P","Q","R","S","T","U","V","W","X","Y","Z">>
Alphabet == <<"a","b","c","d","e","f","g","h","i","j","k","l","m","n","o","p","q","r","s","t","u","v","w","x","y","z">>

UpperLetters == {ALPHABET[i] : i \in DOMAIN ALPHABET}
LowerLetters == {Alphabet[i] : i \in DOMAIN Alphabet}
Digits == {"0","1","2","3","4","5","6","7","8","9"}

Whitespace == {" ", "\n", "\t"}

\* \w of the regular expression
IsWordChar(c) == c \in UpperLetters \cup LowerLetters \cup Digits \cup {"_"}

LetterIndex(c, letters) == CHOOSE i \in DOMAIN letters : letters[i] = c

\* str.lower() and str.upper(), character by character
lower(s) ==
  [i \in DOMAIN s |->
     IF s[i] \in UpperLetters THEN Alphabet[LetterIndex(s[i], ALPHABET)] ELSE s[i]]

upper(s) ==
  [i \in DOMAIN s |->
     IF s[i] \in LowerLetters THEN ALPHABET[LetterIndex(s[i], Alphabet)] ELSE s[i]]

\* Python's  k in s  on strings
IsSubstring(k, s) ==
  \E i \in 1..(Len(s) - Len(k) + 1) : SubSeq(s, i, i + Len(k) - 1) = k

RECURSIVE strip_left(_)
strip_left(s) ==
  IF s # <<>> /\ Head(s) \in Whitespace THEN strip_left(Tail(s)) ELSE s

RECURSIVE strip_right(_)
strip_right(s) ==
  IF s # <<>> /\ s[Len(s)] \in Whitespace THEN strip_right(SubSeq(s, 1, Len(s) - 1)) ELSE s

\* str.strip()
strip(s) == strip_right(strip_left(s))

Min(a, b) == IF a <= b THEN a ELSE b

\* A JSON value as the completion service may return it for a field.
JAbsent == [t |-> "absent"]
JNum(x) == [t |-> "num", v |-> x]
JStr(x) == [t |-> "str", v |-> x]
JList(x) == [t |-> "list", v |-> x]
JBool(x) == [t |-> "bool", v |-> x]
JNull == [t |-> "null"]

-----------------------------------------------------------------------------
(* The questions the model draws from *)

\* Phrases questions are built from: market terms, narrative terms, a ticker,
\* and a word that is neither.
Vocab ==
  << <<"s","t","o","c","k"," ","p","r","i","c","e">>,   \* 'stock price'
     <<"m","a","r","k","e","t"," ","c","a","p">>,   \* 'market cap'
     <<"A","A","P","L">>,   \* 'AAPL'
     <<"r","i","s","k">>,   \* 'risk'
     <<"s","t","r","a","t","e","g","y">>,   \* 'strategy'
     <<"f","o","r","e","c","a","s","t">>,   \* 'forecast'
     <<"t","r","e","n","d">>,   \* 'trend'
     <<"o","v","e","r","v","i","e","w">> >>   \* 'overview'


RECURSIVE JoinPhrases(_)
JoinPhrases(ps) ==
  IF ps = <<>> THEN <<>>
  ELSE IF Len(ps) = 1 THEN Vocab[ps[1]]
  ELSE Vocab[ps[1]] \o <<" ">> \o JoinPhrases(Tail(ps))

\* every question of 1..n phrases
QuestionsUpTo(n) ==
  {JoinPhrases(ps) : ps \in UNION {[1..k -> DOMAIN Vocab] : k \in 1..n}}

Questions == QuestionsUpTo(MaxPhrases)

-----------------------------------------------------------------------------
(* QueryRouter._simple_analysis                                             *)

\* the market keyword list
finance_keywords ==
  << <<"p","r","i","c","e">>,   \* 'price'
     <<"s","t","o","c","k">>,   \* 'stock'
     <<"m","a","r","k","e","t">>,   \* 'market'
     <<"t","r","a","d","i","n","g">>,   \* 'trading'
     <<"p","r","e","d","i","c","t","i","o","n">>,   \* 'prediction'
     <<"f","o","r","e","c","a","s","t">>,   \* 'forecast'
     <<"c","u","r","r","e","n","t">>,   \* 'current'
     <<"r","e","a","l","-","t","i","m","e">>,   \* 'real-time'
     <<"l","i","v","e">>,   \* 'live'
     <<"q","u","o","t","e">>,   \* 'quote'
     <<"c","h","a","r","t">>,   \* 'chart'
     <<"t","r","e","n","d">>,   \* 'trend'
     <<"v","o","l","u","m","e">>,   \* 'volume'
     <<"m","a","r","k","e","t"," ","c","a","p">>,   \* 'market cap'
     <<"p","e"," ","r","a","t","i","o">>,   \* 'pe ratio'
     <<"d","i","v","i","d","e","n","d">>,   \* 'dividend'
     <<"e","a","r","n","i","n","g","s">>,   \* 'earnings'
     <<"t","e","c","h","n","i","c","a","l">>,   \* 'technical'
     <<"f","u","n","d","a","m","e","n","t","a","l">>,   \* 'fundamental'
     <<"a","n","a","l","y","s","t">>,   \* 'analyst'
     <<"t","a","r","g","e","t"," ","p","r","i","c","e">>,   \* 'target price'
     <<"c","o","m","p","a","r","e">>,   \* 'compare'
     <<"c","o","m","p","a","r","i","s","o","n">>,   \* 'comparison'
     <<"p","e","r","f","o","r","m","a","n","c","e">>,   \* 'performance'
     <<"h","i","s","t","o","r","i","c","a","l">>,   \* 'historical'
     <<"g","r","a","p","h">>,   \* 'graph'
     <<"v","i","s","u","a","l","i","z","a","t","i","o","n">>,   \* 'visualization'
     <<"p","i","e"," ","c","h","a","r","t">>,   \* 'pie chart'
     <<"l","i","n","e"," ","c","h","a","r","t">>,   \* 'line chart'
     <<"s","u","m","m","a","r","y">> >>   \* 'summary'

\* the narrative keyword list
rag_keywords ==
  << <<"s","t","r","a","t","e","g","y">>,   \* 'strategy'
     <<"b","u","s","i","n","e","s","s"," ","m","o","d","e","l">>,   \* 'business model'
     <<"c","o","m","p","e","t","i","t","i","v","e">>,   \* 'competitive'
     <<"r","i","s","k">>,   \* 'risk'
     <<"o","p","p","o","r","t","u","n","i","t","y">>,   \* 'opportunity'
     <<"m","a","n","a","g","e","m","e","n","t">>,   \* 'management'
     <<"l","e","a","d","e","r","s","h","i","p">>,   \* 'leadership'
     <<"p","r","o","d","u","c","t">>,   \* 'product'
     <<"s","e","r","v","i","c","e">>,   \* 'service'
     <<"c","u","s","t","o","m","e","r">>,   \* 'customer'
     <<"r","e","v","e","n","u","e">>,   \* 'revenue'
     <<"g","r","o","w","t","h">>,   \* 'growth'
     <<"e","x","p","a","n","s","i","o","n">>,   \* 'expansion'
     <<"a","c","q","u","i","s","i","t","i","o","n">>,   \* 'acquisition'
     <<"m","e","r","g","e","r">>,   \* 'merger'
     <<"r","e","p","o","r","t">>,   \* 'report'
     <<"f","i","l","i","n","g">>,   \* 'filing'
     <<"a","n","n","u","a","l">>,   \* 'annual'
     <<"q","u","a","r","t","e","r","l","y">>,   \* 'quarterly'
     <<"1","0","-","k">>,   \* '10-k'
     <<"1","0","-","q">> >>   \* '10-q'

\* the end of the run of \w characters that starts at position i
RECURSIVE WordRunEnd(_, _)
WordRunEnd(s, i) ==
  IF i < Len(s) /\ IsWordChar(s[i + 1]) THEN WordRunEnd(s, i + 1) ELSE i

\* re.findall(r'\b[A-Z]{1,5}\b', s) from position i on: a match is a maximal
\* run of \w characters made of 1 to 5 capital letters only (the \b on both
\* sides rule out a part of a longer run).
RECURSIVE find_symbols_from(_, _)
find_symbols_from(s, i) ==
  IF i > Len(s) THEN <<>>
  ELSE IF ~IsWordChar(s[i]) THEN find_symbols_from(s, i + 1)
  ELSE LET e == WordRunEnd(s, i)
           run == SubSeq(s, i, e)
       IN (IF Len(run) <= 5 /\ \A j \in DOMAIN run : run[j] \in UpperLetters
           THEN <<run>> ELSE <<>>)
          \o find_symbols_from(s, e + 1)

find_symbols(s) == find_symbols_from(s, 1)

\* sum(1 for keyword in keywords if keyword in question_lower)
keyword_score(keywords, question_lower) ==
  Cardinality({i \in DOMAIN keywords : IsSubstring(keywords[i], question_lower)})

\* min(0.9, score / 5), in hundredths
score_confidence(score) == Min(90, (score * 100) \div 5)

\* simple_decision with the ticker default taken only for a tie at zero
simple_decision_tie_at_zero(finance_score, rag_score, symbols) ==
  IF finance_score > rag_score /\ finance_score > 0
    THEN [query_type |-> "finance", confidence |-> score_confidence(finance_score)]
  ELSE IF rag_score > finance_score /\ rag_score > 0
    THEN [query_type |-> "rag", confidence |-> score_confidence(rag_score)]
  ELSE IF symbols # <<>> /\ finance_score = 0
    THEN [query_type |-> "finance", confidence |-> 70]
  ELSE [query_type |-> "rag", confidence |-> 50]

\* The branch of the if/elif chain; confidence is in hundredths.
simple_decision(finance_score, rag_score, symbols) ==
  IF finance_score > rag_score /\ finance_score > 0
    THEN [query_type |-> "finance", confidence |-> score_confidence(finance_score)]
  ELSE IF rag_score > finance_score /\ rag_score > 0
    THEN [query_type |-> "rag", confidence |-> score_confidence(rag_score)]
  ELSE IF symbols # <<>>
    THEN [query_type |-> "finance", confidence |-> 70]
  ELSE [query_type |-> "rag", confidence |-> 50]

simple_analysis(question) ==
  LET question_lower == lower(question)
      symbols == find_symbols(upper(question))
      finance_score == keyword_score(finance_keywords, question_lower)
      rag_score == keyword_score(rag_keywords, question_lower)
      d == simple_decision(finance_score, rag_score, symbols)
  IN [query_type |-> d.query_type,
      confidence |-> JNum(d.confidence),
      symbols |-> JList(symbols),
      is_prediction |-> IsSubstring(<<"p","r","e","d","i","c","t","i","o","n">>, question_lower)
                        \/ IsSubstring(<<"f","o","r","e","c","a","s","t">>, question_lower),
      is_quantitative |-> finance_score > 0,
      reasoning |-> [finance |-> finance_score, rag |-> rag_score]]

NoAnalysis == [query_type |-> "none"]

KaIdle == ka_pc = "idle" /\ ka_question = <<>> /\ ka_analysis = NoAnalysis

KaInit == ka_pc = "call" /\ ka_question \in Questions /\ ka_analysis = NoAnalysis

\* one call of _simple_analysis
SimpleAnalysis ==
  /\ ka_pc = "call"
  /\ ka_analysis' = simple_analysis(ka_question)
  /\ ka_pc' = "returned"
  /\ UNCHANGED ka_question
  /\ KaFrame

-----------------------------------------------------------------------------
(* QueryRouter.route_query: one request                                     *)

\* What the completion service can answer to the analysis prompt: the call
\* raises, the body is not JSON, the body is JSON but no object, or it is an
\* object whose fields are present or not and of the asked type or not.
AnalysisResponses ==
  {[kind |-> "error"], [kind |-> "text"], [kind |-> "json"]}
  \cup
  [kind : {"object"},
   query_type : {JAbsent, JStr("rag"), JStr("finance"), JStr("mixed"), JStr("unknown")},
   confidence : {JAbsent, JNum(80), JNum(150), JStr("high")},
   symbols : {JAbsent, JList(<< <<"A","A","P","L">> >>), JNum(5)}]

NoResponse == [kind |-> "none"]

\* dict.get(key, default)
get(field, default) == IF field = JAbsent THEN default ELSE field

\* analyze_query asking the completion service a second time after a failure
analyze_query_retry(question, client, resp) ==
  IF client = "None"
    THEN [analysis |-> simple_analysis(question), calls |-> 0]
  ELSE IF resp.kind = "object"
    THEN [analysis |->
            [query_type |-> get(resp.query_type, JStr("rag")).v,
             confidence |-> get(resp.confidence, JNum(50)),
             symbols |-> get(resp.symbols, JList(<<>>)),
             is_prediction |-> FALSE,
             is_quantitative |-> FALSE,
             reasoning |-> [finance |-> 0, rag |-> 0]],
          calls |-> 1]
  ELSE [analysis |-> simple_analysis(question), calls |-> 2]

\* _analyze_query, lines 104-156, for the answer resp of the completion
\* service.  calls is the number of completion calls it makes.
analyze_query(question, client, resp) ==
  IF client = "None"
    THEN [analysis |-> simple_analysis(question), calls |-> 0]
  ELSE IF resp.kind = "object"
    THEN [analysis |->
            [query_type |-> get(resp.query_type, JStr("rag")).v,
             confidence |-> get(resp.confidence, JNum(50)),
             symbols |-> get(resp.symbols, JList(<<>>)),
             is_prediction |-> FALSE,
             is_quantitative |-> FALSE,
             reasoning |-> [finance |-> 0, rag |-> 0]],
          calls |-> 1]
  ELSE [analysis |-> simple_analysis(question), calls |-> 1]

ErrorAnswer == <<"I encountered an error while processing your query. Please try again.">>
RagHandlerApology == <<"I couldn't find relevant information in the documents for your question.">>
RagErrorAnswer == <<"I encountered an error while processing your question. Please try again.">>
NoDocumentsAnswer == <<"I couldn't find any relevant documents for your question.">>
FinanceApology == <<"I couldn't retrieve the financial data you requested. Please try again.">>
NoMarketData == <<"I couldn't retrieve current market data.">>

NoResult == [source |-> "none", answer |-> <<>>, charts |-> FALSE]

\* route_query without its except clause: the exception reaches the caller
routing_failure_reraise == [result |-> NoResult, raised |-> TRUE]

\* the except clause of route_query, lines 90-98
routing_failure == [result |-> [source |-> "error", answer |-> ErrorAnswer, charts |-> FALSE],
                    raised |-> FALSE]

\* the except clause of _handle_mixed_query, lines 364-372
mixed_failure == [source |-> "mixed", answer |-> ErrorAnswer, charts |-> FALSE]

\* the except clause of _fallback_finance_query, lines 309-317
finance_failure == [source |-> "finance", answer |-> FinanceApology, charts |-> FALSE]

\* RAGService.process_query never raises: an exception inside it ends in its
\* own except clause (rag_service.py:75-83).
RagOutcomes == {"answer", "no_documents", "error"}

process_query(out) ==
  CASE out = "answer" -> [answer |-> <<"<answer from the documents>">>, failed |-> FALSE]
    [] out = "no_documents" -> [answer |-> NoDocumentsAnswer, failed |-> FALSE]
    [] out = "error" -> [answer |-> RagErrorAnswer, failed |-> TRUE]

\* How a call ends: with its value, or with the exception that leaves it.
Ok(value) == [status |-> "ok", value |-> value, exc |-> "none"]
Raise(exc) == [status |-> "raise", value |-> <<>>, exc |-> exc]

\* What the completion service can answer to the prompt of classify_intent:
\* the call raises, the body is empty, is no JSON, or is an object without
\* one of the keys asked for; or an object with its intent and symbols.
FinanceIntentResponses ==
  {[kind |-> "error"], [kind |-> "empty"], [kind |-> "text"], [kind |-> "missing_keys"]}
  \cup
  [kind : {"object"},
   intent : {"market_summary", "multi_company_trend", "prediction", "other"},
   symbols : {<<>>, << <<"A","A","P","L">> >>}]

\* SmartFinanceRouter.classify_intent, finance_router.py:17-45: every
\* failure ends in the fallback intent
classify_intent(resp) ==
  IF resp.kind = "object"
    THEN [intent |-> resp.intent, symbols |-> resp.symbols, classified |-> TRUE]
  ELSE [intent |-> "fallback", symbols |-> <<>>, classified |-> FALSE]

\* How a forecast can end: fitted, or failed for want of history, for a
\* horizon _parse_horizon rejects, or in the fit of the model.
ForecastOutcomes == {"fitted", "no_history", "bad_horizon", "fit_fails"}

\* PredictionService.predict_with_arma, prediction_service.py:63-110: the
\* except clause prints and raises the exception again
predict_with_arma(outcome) ==
  IF outcome = "fitted" THEN Ok(outcome)
  ELSE IF outcome = "fit_fails" THEN Raise("LinAlgError")
  ELSE Raise("ValueError")

\* what route_query hands back or raises, with the intent it acted on
SmartResult(kind, charts, exc, intent_data, forecast) ==
  [kind |-> kind, charts |-> charts, exc |-> exc, intent |-> intent_data.intent,
   classified |-> intent_data.classified, forecast |-> forecast]

\* SmartFinanceRouter.route_query, finance_router.py:169-188, where history
\* tells whether get_historical_data finds prices and outcome how a forecast
\* ends.  The last branch calls rag_service.query, which RAGService has not.
smart_route_query(resp, history, outcome) ==
  LET intent_data == classify_intent(resp)
      intent == intent_data.intent
      symbols == intent_data.symbols
  IN IF intent = "market_summary"
       THEN SmartResult("ok", TRUE, "none", intent_data, "not_asked")
     ELSE IF intent = "multi_company_trend" /\ symbols # <<>>
       THEN SmartResult("ok", history, "none", intent_data, "not_asked")
     ELSE IF intent = "prediction" /\ symbols # <<>>
       THEN LET prediction == predict_with_arma(outcome)
            IN IF prediction.status = "raise"
                 THEN SmartResult("raises", FALSE, prediction.exc, intent_data, "failed")
               ELSE SmartResult("ok", TRUE, "none", intent_data, "made")
     ELSE SmartResult("raises", FALSE, "AttributeError", intent_data, "not_asked")

\* Everything route_query can hand back or raise.
SmartResults ==
  {smart_route_query(resp, history, outcome) :
     resp \in FinanceIntentResponses, history \in BOOLEAN, outcome \in ForecastOutcomes}

SmartContent == <<"<content of the finance router>">>

\* bool(x) of a JSON value
Truthy(j) ==
  CASE j.t = "list" -> j.v # <<>>
    [] j.t = "num" -> j.v # 0
    [] OTHER -> FALSE

\* _handle_mixed_query has not run
NoMarket ==
  [chart_generation |-> "not_run", quotes |-> FALSE, classified |-> TRUE,
   forecast |-> "not_asked"]

\* what a handler notes of the result sm of the finance router
market_of(sm, quotes) ==
  [chart_generation |-> IF sm.kind = "raises" THEN "raised"
                        ELSE IF sm.charts THEN "chart" ELSE "no_chart",
   quotes |-> quotes, classified |-> sm.classified, forecast |-> sm.forecast]

RqIdle ==
  /\ openai_client = "None" /\ rq_pc = "idle" /\ rq_question = <<>>
  /\ rq_response = NoResponse
  /\ rq_analysis = NoAnalysis /\ rq_calls = <<>> /\ rq_dispatched = <<>>
  /\ rq_unrecovered = "none" /\ rq_result = NoResult /\ rq_raised = FALSE
  /\ rq_market = NoMarket

RqInit ==
  /\ openai_client \in {"client", "None"}
  /\ rq_pc = "start"
  /\ rq_question \in QuestionsUpTo(MaxRouterPhrases)
  /\ rq_response = NoResponse
  /\ rq_analysis = NoAnalysis /\ rq_calls = <<>> /\ rq_dispatched = <<>>
  /\ rq_unrecovered = "none" /\ rq_result = NoResult /\ rq_raised = FALSE
  /\ rq_market = NoMarket

\* route_query is entered (lines 63-70)
RouteQuery ==
  /\ rq_pc = "start"
  /\ rq_pc' = "analyzing"
  /\ UNCHANGED <<openai_client, rq_question, rq_response, rq_analysis, rq_calls, rq_dispatched,
                 rq_unrecovered, rq_result, rq_raised>>
  /\ UNCHANGED rq_market
  /\ RqFrame

\* Step 1, line 72
AnalyzeQuery ==
  /\ rq_pc = "analyzing"
  /\ \E resp \in AnalysisResponses :
       LET a == analyze_query(rq_question, openai_client, resp)
       IN /\ rq_analysis' = a.analysis
          /\ rq_calls' = rq_calls \o [i \in 1..a.calls |-> "completion:analysis"]
          /\ rq_response' = IF a.calls = 0 THEN NoResponse ELSE resp
  /\ rq_pc' = "analyzed"
  /\ UNCHANGED <<openai_client, rq_question, rq_dispatched, rq_unrecovered,
                 rq_result, rq_raised>>
  /\ UNCHANGED rq_market
  /\ RqFrame

\* the if/elif chain without its else branch
branch_of_without_default(query_type) ==
  CASE query_type = "rag" -> "rag"
    [] query_type = "finance" -> "finance"
    [] query_type = "mixed" -> "mixed"
    [] OTHER -> "none"

\* the handler route_query calls for a query type, lines 77-88
branch_of(query_type) ==
  CASE query_type = "rag" -> "rag"
    [] query_type = "finance" -> "finance"
    [] query_type = "mixed" -> "mixed"
    [] OTHER -> "rag"

\* Lines 74-88: the log line formats the confidence with :.2f, which raises
\* for a confidence that is no number; then the handler is called.
Dispatch ==
  /\ rq_pc = "analyzed"
  /\ IF rq_analysis.confidence.t # "num"
       THEN /\ rq_result' = routing_failure.result
            /\ rq_raised' = routing_failure.raised
            /\ rq_unrecovered' = "routing"
            /\ rq_pc' = "done"
            /\ UNCHANGED rq_dispatched
       ELSE /\ rq_pc' = branch_of(rq_analysis.query_type)
            /\ rq_dispatched' = Append(rq_dispatched, branch_of(rq_analysis.query_type))
            /\ UNCHANGED <<rq_result, rq_raised, rq_unrecovered>>
  /\ UNCHANGED <<openai_client, rq_question, rq_response, rq_analysis, rq_calls>>
  /\ UNCHANGED rq_market
  /\ RqFrame

\* _handle_rag_query, lines 210-235
HandleRag ==
  /\ rq_pc = "rag"
  /\ \E out \in RagOutcomes :
       LET r == process_query(out)
       IN /\ rq_result' = [source |-> "rag", answer |-> r.answer, charts |-> FALSE]
          /\ rq_unrecovered' = IF r.failed THEN "rag" ELSE "none"
  /\ rq_calls' = Append(rq_calls, "rag_service.process_query")
  /\ rq_pc' = "done"
  /\ UNCHANGED <<openai_client, rq_question, rq_response, rq_analysis, rq_dispatched, rq_raised>>
  /\ UNCHANGED rq_market
  /\ RqFrame

\* _handle_finance_query, lines 237-267
HandleFinance ==
  /\ rq_pc = "finance"
  /\ IF openai_client = "client"
       THEN \E sm \in SmartResults :
              /\ rq_calls' = Append(rq_calls, "smart_finance_router.route_query")
              /\ rq_market' = market_of(sm, FALSE)
              /\ IF sm.kind = "ok"
                   THEN /\ rq_result' = [source |-> "finance", answer |-> SmartContent,
                                         charts |-> sm.charts]
                        /\ rq_pc' = "done"
                   ELSE /\ rq_pc' = "fallback_finance"
                        /\ UNCHANGED rq_result
       ELSE /\ rq_pc' = "fallback_finance"
            /\ UNCHANGED <<rq_calls, rq_result, rq_market>>
  /\ UNCHANGED <<openai_client, rq_question, rq_response, rq_analysis, rq_dispatched,
                 rq_unrecovered, rq_raised>>
  /\ RqFrame

\* _generate_finance_answer, lines 374-414: the calls it makes
finance_answer_calls(client) ==
  IF client = "client" THEN <<"completion:finance_answer">> ELSE <<>>

\* _fallback_finance_query, lines 269-317.  quotes: get_multiple_stocks found
\* a quote for at least one symbol.
FallbackFinance ==
  /\ rq_pc = "fallback_finance"
  /\ IF Truthy(rq_analysis.symbols) /\ rq_analysis.symbols.t # "list"
       THEN \* iterating the symbols raises
            /\ rq_result' = finance_failure
            /\ rq_unrecovered' = "finance"
            /\ rq_calls' = Append(rq_calls, "finance_service.get_multiple_stocks")
            /\ UNCHANGED rq_market
       ELSE \E quotes \in BOOLEAN :
              /\ quotes => Truthy(rq_analysis.symbols)
              /\ rq_market' = [rq_market EXCEPT !.quotes = quotes]
              /\ IF quotes
                   THEN /\ rq_result' = [source |-> "finance",
                                         answer |-> <<"<answer from the quotes>">>,
                                         charts |-> FALSE]
                        /\ rq_calls' = rq_calls
                              \o <<"finance_service.get_multiple_stocks">>
                              \o finance_answer_calls(openai_client)
                   ELSE /\ rq_result' = [source |-> "finance",
                                         answer |-> <<"<market summary>">>,
                                         charts |-> FALSE]
                        /\ rq_calls' = rq_calls
                              \o (IF Truthy(rq_analysis.symbols)
                                  THEN <<"finance_service.get_multiple_stocks">> ELSE <<>>)
                              \o <<"finance_service.get_market_summary">>
              /\ UNCHANGED rq_unrecovered
  /\ rq_pc' = "done"
  /\ UNCHANGED <<openai_client, rq_question, rq_response, rq_analysis, rq_dispatched, rq_raised>>
  /\ RqFrame

\* _combine_answers with the market content put before the narrative
combine_answers_market_first(rag_answer, finance_data, finance_content) ==
  (IF finance_content # <<>>
   THEN <<"Financial Analysis: ">> \o finance_content ELSE <<>>)
  \o (IF finance_data /\ finance_content = <<>>
      THEN <<"Current Market Data: ", "<quotes>">> ELSE <<>>)
  \o rag_answer

\* _combine_answers, lines 451-464
combine_answers(rag_answer, finance_data, finance_content) ==
  rag_answer
  \o (IF finance_content # <<>>
      THEN <<"Financial Analysis: ">> \o finance_content ELSE <<>>)
  \o (IF finance_data /\ finance_content = <<>>
      THEN <<"Current Market Data: ", "<quotes>">> ELSE <<>>)

\* _handle_mixed_query, lines 319-372
HandleMixed ==
  /\ rq_pc = "mixed"
  /\ \E out \in RagOutcomes, sm \in SmartResults, quotes \in BOOLEAN :
       LET rag_result == process_query(out)
           smart == openai_client = "client"
           charts == smart /\ sm.kind = "ok" /\ sm.charts
           finance_content == IF smart /\ sm.kind = "ok" THEN SmartContent ELSE <<>>
           lookup == Truthy(rq_analysis.symbols) /\ ~charts
           calls == <<"rag_service.process_query">>
                    \o (IF smart THEN <<"smart_finance_router.route_query">> ELSE <<>>)
                    \o (IF lookup THEN <<"finance_service.get_multiple_stocks">> ELSE <<>>)
       IN /\ ~smart => sm.kind = "raises"
          /\ quotes => lookup /\ rq_analysis.symbols.t = "list"
          /\ rq_calls' = rq_calls \o calls
          /\ rq_market' = IF smart THEN market_of(sm, quotes)
                          ELSE [NoMarket EXCEPT !.quotes = quotes]
          /\ IF lookup /\ rq_analysis.symbols.t # "list"
               THEN /\ rq_result' = mixed_failure
                    /\ rq_unrecovered' = "mixed"
               ELSE /\ rq_result' =
                         [source |-> "mixed",
                          answer |-> combine_answers(rag_result.answer, quotes, finance_content),
                          charts |-> charts]
                    /\ rq_unrecovered' = "none"
  /\ rq_pc' = "done"
  /\ UNCHANGED <<openai_client, rq_question, rq_response, rq_analysis, rq_dispatched, rq_raised>>
  /\ RqFrame

-----------------------------------------------------------------------------
(* The lazily constructed singletons.  get_query_router and get_classifier  *)
(* are plain (non-async) dependencies, which the framework runs on worker   *)
(* threads: the requests' calls interleave between any two steps.           *)

Requests == 1..NumRequests
Getters == {"get_query_router", "get_classifier"}

SgIdle ==
  /\ sg_handle = [g \in Getters |-> 0]
  /\ sg_built = [g \in Getters |-> 0]
  /\ sg_replaced = [g \in Getters |-> FALSE]
  /\ sg_pc = [r \in Requests |-> "idle"]
  /\ sg_getter = [r \in Requests |-> "none"]
  /\ sg_new = [r \in Requests |-> 0]
  /\ sg_got = [r \in Requests |-> 0]

\* the module is imported: both globals are None, no request has arrived
SgInit ==
  /\ sg_handle = [g \in Getters |-> 0]
  /\ sg_built = [g \in Getters |-> 0]
  /\ sg_replaced = [g \in Getters |-> FALSE]
  /\ sg_pc = [r \in Requests |-> "arriving"]
  /\ sg_getter = [r \in Requests |-> "none"]
  /\ sg_new = [r \in Requests |-> 0]
  /\ sg_got = [r \in Requests |-> 0]

\* a request enters one of the getters
CallGetter(r) ==
  /\ sg_pc[r] = "arriving"
  /\ \E g \in Getters : sg_getter' = [sg_getter EXCEPT ![r] = g]
  /\ sg_pc' = [sg_pc EXCEPT ![r] = "check"]
  /\ UNCHANGED <<sg_handle, sg_built, sg_replaced, sg_new, sg_got>>
  /\ SgFrame

\* if _query_router is None: / if _classifier is None:
CheckNone(r) ==
  /\ sg_pc[r] = "check"
  /\ sg_pc' = [sg_pc EXCEPT ![r] = IF sg_handle[sg_getter[r]] = 0
                                     THEN "construct" ELSE "return"]
  /\ UNCHANGED <<sg_handle, sg_built, sg_replaced, sg_getter, sg_new, sg_got>>
  /\ SgFrame

\* QueryRouter() / create_classifier(...): the right-hand side of the
\* assignment.  create_classifier may raise, which get_classifier turns into
\* an HTTP 500 (answering.py:67-72).
Construct(r) ==
  /\ sg_pc[r] = "construct"
  /\ \/ /\ sg_built' = [sg_built EXCEPT ![sg_getter[r]] = @ + 1]
        /\ sg_new' = [sg_new EXCEPT ![r] = sg_built[sg_getter[r]] + 1]
        /\ sg_pc' = [sg_pc EXCEPT ![r] = "store"]
     \/ /\ sg_getter[r] = "get_classifier"
        /\ sg_pc' = [sg_pc EXCEPT ![r] = "http500"]
        /\ UNCHANGED <<sg_built, sg_new>>
  /\ UNCHANGED <<sg_handle, sg_replaced, sg_getter, sg_got>>
  /\ SgFrame

\* the store to the global
Store(r) ==
  /\ sg_pc[r] = "store"
  /\ sg_handle' = [sg_handle EXCEPT ![sg_getter[r]] = sg_new[r]]
  /\ sg_replaced' = [sg_replaced EXCEPT ![sg_getter[r]] = @ \/ sg_handle[sg_getter[r]] # 0]
  /\ sg_pc' = [sg_pc EXCEPT ![r] = "return"]
  /\ UNCHANGED <<sg_built, sg_getter, sg_new, sg_got>>
  /\ SgFrame

\* return _query_router / return _classifier: the global is read again
ReturnHandle(r) ==
  /\ sg_pc[r] = "return"
  /\ sg_got' = [sg_got EXCEPT ![r] = sg_handle[sg_getter[r]]]
  /\ sg_pc' = [sg_pc EXCEPT ![r] = "done"]
  /\ UNCHANGED <<sg_handle, sg_built, sg_replaced, sg_getter, sg_new>>
  /\ SgFrame

-----------------------------------------------------------------------------
(* IntentExtractor.extract and QuestionClassifier.classify: the retry loop  *)

EmptyIntent == [companies |-> <<>>, years |-> <<>>]
DefaultClassification ==
  [text |-> TRUE, recommendation |-> FALSE, charts |-> FALSE, preview |-> FALSE]

NoCompletion == [kind |-> "none"]

\* What the completion service can answer to the extraction prompt: the
\* call raises, the body is no JSON, the body is JSON but no object (a list),
\* or an object whose companies and years are missing, well typed or not.
ExtractResponses ==
  {[kind |-> "error"], [kind |-> "text"], [kind |-> "json"]}
  \cup
  [kind : {"object"},
   companies : {JAbsent,
                JList(<< JStr(<<"A","p","p","l","e">>) >>),
                JList(<< JStr(<<"A","p","p","l","e">>), JNum(7) >>),
                JStr(<<"A","I">>),
                JNum(5)},
   years : {JAbsent,
            JList(<< JNum(2023) >>),
            JList(<< JStr(<<"2","0","2","3">>), JNum(2024) >>),
            JList(<< JNum(2023), JStr(<<"F","Y">>) >>),
            JList(<< JNull >>),
            JNum(2023)}]

DigitValue(c) == CHOOSE n \in 0..9 : <<"0","1","2","3","4","5","6","7","8","9">>[n + 1] = c

\* int(s) of a string of decimal digits
RECURSIVE int_of_digits(_)
int_of_digits(s) ==
  IF s = <<>> THEN 0
  ELSE 10 * int_of_digits(SubSeq(s, 1, Len(s) - 1)) + DigitValue(s[Len(s)])

\* int(y) for one JSON value
int_of(y) ==
  CASE y.t = "num" -> Ok(y.v)
    [] y.t = "str" -> IF y.v # <<>> /\ \A i \in DOMAIN y.v : y.v[i] \in Digits
                      THEN Ok(int_of_digits(y.v)) ELSE Raise("ValueError")
    [] OTHER -> Raise("TypeError")

\* c.lower() for one JSON value
lower_of(c) ==
  IF c.t = "str" THEN Ok(lower(c.v)) ELSE Raise("AttributeError")

\* Iterating a JSON value: the items of a list, the characters of a string;
\* any other value is not iterable.
iterate(value) ==
  CASE value.t = "list" -> Ok(value.v)
    [] value.t = "str" -> Ok([i \in DOMAIN value.v |-> JStr(<<value.v[i]>>)])
    [] OTHER -> Raise("TypeError")

\* The list a comprehension builds from the results of its items, or the
\* exception of the first item that raised.
collect(results) ==
  LET failures == {i \in DOMAIN results : results[i].status = "raise"}
  IN IF failures = {} THEN Ok([i \in DOMAIN results |-> results[i].value])
     ELSE results[CHOOSE i \in failures : \A j \in failures : i <= j]

\* [c.lower() for c in companies]
lower_each(companies) ==
  LET items == iterate(companies)
  IN IF items.status = "raise" THEN items
     ELSE collect([i \in DOMAIN items.value |-> lower_of(items.value[i])])

\* [int(y) for y in years]
int_each(years) ==
  LET items == iterate(years)
  IN IF items.status = "raise" THEN items
     ELSE collect([i \in DOMAIN items.value |-> int_of(items.value[i])])

\* IntentExtractor._parse_response, lines 132-144: the except clause turns a
\* JSONDecodeError or TypeError into the empty intent; any other exception
\* leaves the function.
extract_parse_response(resp) ==
  IF resp.kind = "text" THEN Ok(EmptyIntent)
  ELSE IF resp.kind = "json" THEN Raise("AttributeError")
  ELSE LET companies == lower_each(get(resp.companies, JList(<<>>)))
           years == int_each(get(resp.years, JList(<<>>)))
           failed == IF companies.status = "raise" THEN companies ELSE years
       IN IF failed.status = "raise"
            THEN IF failed.exc = "TypeError" THEN Ok(EmptyIntent) ELSE failed
            ELSE Ok([companies |-> companies.value, years |-> years.value])

\* the backquote character, one element of a text
Backquote == "backquote"
\* the mark that opens and closes a code block
Fence == <<Backquote, Backquote, Backquote>>
ObjectText == <<"{","}">>
ListText == <<"[","]">>
PlainText == <<"o","k">>

\* What the completion service can answer to the classification prompt: the
\* call raises, or a body: the text of an object, of a list or of no JSON
\* value, bare or between code-block marks (opened and closed, or not).
ClassifyObjects ==
  [text : {JAbsent, JBool(TRUE), JBool(FALSE)},
   recommendation : {JAbsent, JBool(TRUE)},
   charts : {JAbsent, JBool(TRUE)},
   preview : {JAbsent, JBool(TRUE)}]

TextFalseObject ==
  [text |-> JBool(FALSE), recommendation |-> JBool(TRUE), charts |-> JAbsent,
   preview |-> JAbsent]

ClassifyResponses ==
  {[kind |-> "error"]}
  \cup
  [kind : {"body"}, prefix : {<<>>}, suffix : {<<>>},
   payload : {ListText, PlainText}, object : {TextFalseObject}]
  \cup
  [kind : {"body"}, prefix : {<<>>}, suffix : {<<>>},
   payload : {ObjectText}, object : ClassifyObjects]
  \cup
  [kind : {"body"},
   prefix : {Fence \o <<"j","s","o","n","\n">>, Fence \o <<"\n">>, <<" ">>},
   suffix : {<<"\n">> \o Fence, <<>>},
   payload : {ObjectText}, object : {TextFalseObject}]

body_of(resp) == resp.prefix \o resp.payload \o resp.suffix

startswith(s, prefix) == Len(s) >= Len(prefix) /\ SubSeq(s, 1, Len(prefix)) = prefix

\* lines 166-170
clean_response(response) ==
  LET cleaned == strip(response)
  IN IF startswith(cleaned, Fence \o <<"j","s","o","n">>)
       THEN strip(SubSeq(cleaned, 8, Len(cleaned) - 3))
     ELSE IF startswith(cleaned, Fence)
       THEN strip(SubSeq(cleaned, 4, Len(cleaned) - 3))
     ELSE cleaned

\* json.loads on the texts the model uses
json_loads(text, object) ==
  IF text = ObjectText THEN Ok([t |-> "dict", v |-> object])
  ELSE IF text = ListText THEN Ok(JList(<<>>))
  ELSE Raise("JSONDecodeError")

\* the parsed object with its text key left as the completion gave it
force_text_skipped(data) == data

\* data["text"] = True, line 180
force_text(data) == [data EXCEPT !.text = JBool(TRUE)]

\* ClassificationResult.from_dict, lines 38-46
from_dict(data) ==
  [text |-> get(data.text, JBool(TRUE)).v,
   recommendation |-> get(data.recommendation, JBool(FALSE)).v,
   charts |-> get(data.charts, JBool(FALSE)).v,
   preview |-> get(data.preview, JBool(FALSE)).v]

\* _parse_response without the isinstance check of line 176: a JSON value
\* that is no object is taken as an object without keys
classify_parse_response_any_json(resp) ==
  LET data == json_loads(clean_response(body_of(resp)), resp.object)
  IN IF data.status = "raise" THEN Raise("ValueError")
     ELSE IF data.value.t # "dict" THEN Ok(DefaultClassification)
     ELSE Ok(from_dict(force_text(data.value.v)))

\* QuestionClassifier._parse_response, lines 162-190: every failure leaves
\* the function as a ValueError.
classify_parse_response(resp) ==
  LET data == json_loads(clean_response(body_of(resp)), resp.object)
  IN IF data.status = "raise" THEN Raise("ValueError")
     ELSE IF data.value.t # "dict" THEN Raise("ValueError")
     ELSE Ok(from_dict(force_text(data.value.v)))

\* for attempt in range(self.max_retries)
in_range(attempt, retries) == attempt < retries

\* the except clause giving up at the first failure
last_attempt_always(attempt, retries) == TRUE

\* if attempt == self.max_retries - 1
last_attempt(attempt, retries) == attempt = retries - 1

\* an except clause that catches parse errors only
catches_parse_errors_only(exc) == exc \in {"JSONDecodeError", "TypeError", "ValueError"}

\* except Exception as e
catches(exc) == TRUE

RtIdle ==
  /\ rt_component = "none" /\ max_retries = 0 /\ rt_question = <<>>
  /\ rt_pc = "idle" /\ rt_attempt = 0 /\ rt_calls = 0 /\ rt_log = <<>>
  /\ rt_last = NoCompletion /\ rt_result = <<>>

RtInit ==
  /\ rt_component \in {"extract", "classify"}
  /\ max_retries \in 0..MaxRetriesBound
  /\ rt_question \in {<<>>, <<" ">>, Vocab[3], Vocab[1]}
  /\ rt_pc = "call" /\ rt_attempt = 0 /\ rt_calls = 0 /\ rt_log = <<>>
  /\ rt_last = NoCompletion /\ rt_result = <<>>

default_result(component) ==
  IF component = "extract" THEN EmptyIntent ELSE DefaultClassification

\* lines 66-71 of extract, 96-101 of classify: a blank question returns the
\* default at once
EnterCall(component) ==
  /\ rt_pc = "call"
  /\ IF strip(rt_question) = <<>>
       THEN /\ rt_pc' = "returned"
            /\ rt_result' = default_result(component)
       ELSE /\ rt_pc' = "loop"
            /\ UNCHANGED rt_result
  /\ UNCHANGED <<rt_component, max_retries, rt_question, rt_attempt, rt_calls,
                 rt_log, rt_last>>
  /\ RtFrame

\* _call_llm then _parse_response, lines 76-79 of extract: the
\* ExtractedIntent, or the exception that reaches the except clause
extract_attempt(resp) ==
  IF resp.kind = "error" THEN Raise("APIError") ELSE extract_parse_response(resp)

\* _call_llm then _parse_response, lines 106-109 of classify
classify_attempt(resp) ==
  IF resp.kind = "error" THEN Raise("APIError") ELSE classify_parse_response(resp)

\* a pass of the loop body that goes on to the next attempt after a success
AttemptGoesOn(component, resp, outcome) ==
  /\ rt_pc = "loop"
  /\ in_range(rt_attempt, max_retries)
  /\ rt_calls' = rt_calls + 1
  /\ rt_last' = resp
  /\ rt_attempt' = rt_attempt + 1
  /\ IF outcome.status = "ok"
     THEN rt_result' = outcome.value /\ rt_log' = Append(rt_log, "ok")
     ELSE rt_log' = Append(rt_log, outcome.exc) /\ UNCHANGED rt_result
  /\ UNCHANGED <<rt_pc, rt_component, max_retries, rt_question>>
  /\ RtFrame

\* one pass of the loop body, lines 74-91 of extract and 104-121 of
\* classify, where the completion service answers resp and the try block
\* ends in outcome
Attempt(component, resp, outcome) ==
  /\ rt_pc = "loop"
  /\ in_range(rt_attempt, max_retries)
  /\ rt_calls' = rt_calls + 1
  /\ rt_last' = resp
  /\ IF outcome.status = "ok"
     THEN /\ rt_result' = outcome.value
          /\ rt_pc' = "returned"
          /\ rt_log' = Append(rt_log, "ok")
          /\ UNCHANGED rt_attempt
     ELSE /\ rt_log' = Append(rt_log, outcome.exc)
          /\ IF ~catches(outcome.exc)
               THEN rt_pc' = "raised" /\ UNCHANGED <<rt_result, rt_attempt>>
             ELSE IF last_attempt(rt_attempt, max_retries)
               THEN /\ rt_result' = default_result(component)
                    /\ rt_pc' = "returned"
                    /\ UNCHANGED rt_attempt
               ELSE /\ rt_attempt' = rt_attempt + 1
                    /\ UNCHANGED <<rt_pc, rt_result>>
  /\ UNCHANGED <<rt_component, max_retries, rt_question>>
  /\ RtFrame

\* the loop is over: the return after it, line 94 of extract, 124 of classify
LoopOver(component) ==
  /\ rt_pc = "loop"
  /\ ~in_range(rt_attempt, max_retries)
  /\ rt_result' = default_result(component)
  /\ rt_pc' = "returned"
  /\ UNCHANGED <<rt_component, max_retries, rt_question, rt_attempt, rt_calls,
                 rt_log, rt_last>>
  /\ RtFrame

ExtractEnter ==
  /\ rt_component = "extract"
  /\ EnterCall("extract")

ExtractAttempt ==
  /\ rt_component = "extract"
  /\ \E resp \in ExtractResponses : Attempt("extract", resp, extract_attempt(resp))

ExtractLoopOver ==
  /\ rt_component = "extract"
  /\ LoopOver("extract")

ClassifyEnter ==
  /\ rt_component = "classify"
  /\ EnterCall("classify")

ClassifyAttempt ==
  /\ rt_component = "classify"
  /\ \E resp \in ClassifyResponses : Attempt("classify", resp, classify_attempt(resp))

ClassifyLoopOver ==
  /\ rt_component = "classify"
  /\ LoopOver("classify")

-----------------------------------------------------------------------------
(* DocumentFilter.filter_by_intent over VectorStoreWrapper                  *)

\* limit of get_documents_with_filters
DefaultLimit == 50
\* limit the fallback asks for
RecentLimit == 10

Apple == <<"a","p","p","l","e">>
Tesla == <<"t","e","s","l","a">>

Stored(prefix, filename, company, year) ==
  [id |-> <<prefix, filename>>,
   metadata |-> [filename |-> filename, company |-> company, year |-> year]]

\* What the document index can hold: per file one file-level item, whose id
\* starts with "metadata_", and the items of its chunks.
Collections ==
  { <<>>,
    << Stored("metadata_", "apple_2023.pdf", Apple, 2023),
       Stored("chunk_", "apple_2023.pdf", Apple, 2023),
       Stored("metadata_", "apple_2024.pdf", Apple, 2024),
       Stored("metadata_", "tesla_2023.pdf", Tesla, 2023),
       Stored("chunk_", "tesla_2023.pdf", Tesla, 2023) >>,
    << Stored("metadata_", "tesla_2021.pdf", Tesla, 2021),
       Stored("chunk_", "tesla_2021.pdf", Tesla, 2021),
       Stored("metadata_", "apple_2023.pdf", Apple, 2023),
       Stored("chunk_", "apple_2023.pdf", Apple, 2023),
       Stored("metadata_", "tesla_2023.pdf", Tesla, 2023) >> }

SeqsUpTo(S, n) == UNION {[1..k -> S] : k \in 0..n}

Intents ==
  [companies : SeqsUpTo({Apple, Tesla}, MaxIntentItems),
   years : SeqsUpTo({2023, 2024}, MaxIntentItems)]

\* equality with the first value whatever the number of values
where_condition_first_only(values) ==
  IF values = <<>> THEN [op |-> "none", values |-> <<>>]
  ELSE [op |-> "eq", values |-> <<values[1]>>]

\* lines 29-42: equality for one value, $in for several, no key for none
where_condition(values) ==
  IF values = <<>> THEN [op |-> "none", values |-> <<>>]
  ELSE IF Len(values) = 1 THEN [op |-> "eq", values |-> values]
  ELSE [op |-> "in", values |-> values]

where_conditions(intent) ==
  [company |-> where_condition(intent.companies),
   year |-> where_condition(intent.years)]

condition_holds(cond, value) ==
  cond.op = "none" \/ \E i \in DOMAIN cond.values : cond.values[i] = value

item_matches(where, item) ==
  /\ condition_holds(where.company, item.metadata.company)
  /\ condition_holds(where.year, item.metadata.year)

\* self.collection.get(where=where): the matching items, or an exception
collection_get(collection, where, fails) ==
  IF fails THEN Raise("IndexError")
  ELSE Ok(SelectSeq(collection, LAMBDA item : item_matches(where, item)))

is_metadata_id(doc_id) == doc_id # <<>> /\ doc_id[1] = "metadata_"

doc_info(item) ==
  [id |-> item.id, filename |-> item.metadata.filename,
   company |-> item.metadata.company, year |-> item.metadata.year]

first_n(s, n) == SubSeq(s, 1, Min(Len(s), n))

\* VectorStoreWrapper.get_documents_with_filters: every exception ends in
\* the empty list
get_documents_with_filters(collection, where, fails) ==
  LET results == collection_get(collection, where, fails)
  IN IF results.status = "raise" THEN Ok(<<>>)
     ELSE LET metadata_items == SelectSeq(results.value, LAMBDA item : is_metadata_id(item.id))
          IN Ok(first_n([i \in DOMAIN metadata_items |-> doc_info(metadata_items[i])],
                        DefaultLimit))

\* self.vector_store.get_recent_documents(limit=10): VectorStoreWrapper has
\* no attribute of that name
get_recent_documents(limit) == Raise("AttributeError")

sorted(years) == SortSeq(years, <)

\* lines 50-57: the description of the filter, as its parts
filter_description(intent) ==
  IF intent.companies = <<>> /\ intent.years = <<>>
  THEN [tag |-> "Intent-based", companies |-> <<>>, years |-> <<>>]
  ELSE [tag |-> "Filter", companies |-> intent.companies, years |-> sorted(intent.years)]

RecentFallback == [tag |-> "Recent documents fallback", companies |-> <<>>, years |-> <<>>]

\* DocumentFilter._get_recent_documents
recent_documents(intent) ==
  LET recent_docs == get_recent_documents(RecentLimit)
  IN IF recent_docs.status = "raise" THEN recent_docs
     ELSE Ok([documents |-> recent_docs.value,
              total_found |-> Len(recent_docs.value),
              filter_applied |-> RecentFallback,
              companies_found |-> intent.companies,
              years_found |-> intent.years])

\* DocumentFilter.filter_by_intent
filter_by_intent(intent, collection, fails) ==
  LET documents == get_documents_with_filters(collection, where_conditions(intent), fails)
  IN IF documents.status = "raise" THEN recent_documents(intent)
     ELSE Ok([documents |-> documents.value,
              total_found |-> Len(documents.value),
              filter_applied |-> filter_description(intent),
              companies_found |-> intent.companies,
              years_found |-> sorted(intent.years)])

FlIdle ==
  /\ fl_pc = "idle" /\ fl_intent = EmptyIntent /\ fl_collection = <<>>
  /\ fl_index_fails = FALSE /\ fl_result = <<>> /\ fl_where = <<>>

FlInit ==
  /\ fl_pc = "call"
  /\ fl_intent \in Intents
  /\ fl_collection \in Collections
  /\ fl_index_fails \in BOOLEAN
  /\ fl_result = <<>> /\ fl_where = <<>>

FilterByIntent ==
  /\ fl_pc = "call"
  /\ LET outcome == filter_by_intent(fl_intent, fl_collection, fl_index_fails)
     IN IF outcome.status = "ok"
          THEN /\ fl_pc' = "returned"
               /\ fl_result' = outcome.value
          ELSE /\ fl_pc' = "raised"
               /\ UNCHANGED fl_result
  /\ fl_where' = <<where_conditions(fl_intent)>>
  /\ UNCHANGED <<fl_intent, fl_collection, fl_index_fails>>
  /\ FlFrame

-----------------------------------------------------------------------------
(* Floating-point values, and the similarity of a hit                       *)

\* A float: a ratio num/den with den > 0, or one of the special values.
F(n, d) == [kind |-> "num", num |-> n, den |-> d]
NaN == [kind |-> "nan", num |-> 0, den |-> 1]
PosInf == [kind |-> "inf", num |-> 0, den |-> 1]
NegInf == [kind |-> "-inf", num |-> 0, den |-> 1]

\* a < b for floats: false whenever one side is nan
f_lt(a, b) ==
  IF a.kind = "nan" \/ b.kind = "nan" THEN FALSE
  ELSE IF a.kind = "-inf" THEN b.kind # "-inf"
  ELSE IF b.kind = "inf" THEN a.kind # "inf"
  ELSE IF a.kind = "inf" \/ b.kind = "-inf" THEN FALSE
  ELSE a.num * b.den < b.num * a.den

\* a <= b for floats
f_le(a, b) ==
  IF a.kind = "nan" \/ b.kind = "nan" THEN FALSE ELSE ~f_lt(b, a)

\* a == b for floats
f_eq(a, b) == f_le(a, b) /\ f_le(b, a)

\* min(a, b) and max(a, b) of Python: the first argument unless the second
\* is strictly smaller (larger)
py_min(a, b) == IF f_lt(b, a) THEN b ELSE a
py_max(a, b) == IF f_lt(a, b) THEN b ELSE a

\* 1.0 - d
one_minus(d) ==
  CASE d.kind = "num" -> F(d.den - d.num, d.den)
    [] d.kind = "inf" -> NegInf
    [] d.kind = "-inf" -> PosInf
    [] OTHER -> NaN

\* 1.0 / (1.0 + d), for the d that reach it (d > 2, or nan)
reciprocal_one_plus(d) ==
  CASE d.kind = "num" -> F(d.den, d.den + d.num)
    [] d.kind = "nan" -> NaN
    [] OTHER -> F(0, 1)

\* the similarity left unclamped
clamp_skipped(x) == x

\* max(0.0, min(1.0, similarity)), line 154
clamp(x) == py_max(F(0, 1), py_min(F(1, 1), x))

\* lines 146-154 of similarity_search_with_filter
similarity_of(distance) ==
  clamp(IF f_le(distance, F(2, 1)) THEN one_minus(distance)
        ELSE reciprocal_one_plus(distance))

\* sum(scores) and sum(scores) / len(scores)
RECURSIVE f_sum(_)
f_sum(scores) ==
  IF scores = <<>> THEN F(0, 1)
  ELSE LET rest == f_sum(Tail(scores))
           x == Head(scores)
       IN F(x.num * rest.den + rest.num * x.den, x.den * rest.den)

-----------------------------------------------------------------------------
(* Retriever.retrieve and RAGService._retrieve_chunks over                  *)
(* VectorStoreWrapper.similarity_search_with_filter                         *)

\* Distances of the stored hits are multiples of 1/DistanceScale.
DistanceScale == 4

Text == <<"t","e","x","t">>
Blank == <<" ", "\n">>

\* _parse_filename on the names of the stored files: company and year are
\* the two parts of the name
parse_filename(filename) ==
  CASE filename = "apple_2023.pdf" -> [company |-> Apple, year |-> 2023]
    [] filename = "apple_2024.pdf" -> [company |-> Apple, year |-> 2024]
    [] filename = "tesla_2023.pdf" -> [company |-> Tesla, year |-> 2023]
    [] filename = "tesla_2021.pdf" -> [company |-> Tesla, year |-> 2021]
    [] OTHER -> [company |-> <<"u","n","k","n","o","w","n">>, year |-> 0]

\* a chunk as process_and_store puts it into the index, with the distance
\* the engine finds for it
Hit(prefix, filename, content, quarters) ==
  [id |-> <<prefix, filename>>,
   document |-> content,
   distance |-> F(quarters, DistanceScale),
   metadata |-> [filename |-> filename,
                 company |-> parse_filename(filename).company,
                 year |-> parse_filename(filename).year]]

\* What the index can hold, in the order the engine ranks it for the
\* question (ascending distance): chunks of files, chunks with blank text,
\* and the file-level items, whose ids start with "metadata_".
Stores ==
  { <<>>,
    << Hit("metadata_", "apple_2023.pdf", Text, -1),
       Hit("chunk_", "apple_2023.pdf", Text, 0),
       Hit("chunk_", "tesla_2023.pdf", Text, 1),
       Hit("chunk_", "apple_2023.pdf", Blank, 2),
       Hit("chunk_", "apple_2023.pdf", Text, 3),
       Hit("chunk_", "tesla_2023.pdf", Text, 8),
       Hit("chunk_", "tesla_2023.pdf", Text, 12) >>,
    << Hit("chunk_", "tesla_2023.pdf", Text, 2),
       Hit("chunk_", "tesla_2023.pdf", Text, 4),
       Hit("chunk_", "tesla_2023.pdf", Text, 20) >>,
    << Hit("chunk_", "apple_2023.pdf", Text, 3),
       Hit("chunk_", "tesla_2023.pdf", Text, 9),
       Hit("chunk_", "tesla_2023.pdf", Text, 12) >> }

\* The candidate documents: file-level records with their id, a record
\* whose id is the bare filename, a file without chunks in the index, and a
\* record without id.
Candidates ==
  { [id |-> <<"metadata_", "apple_2023.pdf">>],
    [id |-> <<"tesla_2023.pdf">>],
    [id |-> <<"metadata_", "empty_2024.pdf">>],
    [id |-> <<>>] }

\* A call passes at most MaxCandidates candidate documents.
MaxCandidates == 2

\* top_k of the calls: a cut below the number of hits, and the default
TopKs == {1, 10}

\* similarity_threshold of the calls: the default 0.1, and above
Thresholds == {F(1, 10), F(1, 2), F(1, 1)}

\* doc_id.replace("metadata_", "")
replace_metadata(doc_id) == SelectSeq(doc_id, LAMBDA part : part # "metadata_")

\* lines 66-78: the where filter on the filename
filename_filter(document_ids) ==
  LET filenames == [i \in DOMAIN document_ids |->
                      IF is_metadata_id(document_ids[i])
                      THEN replace_metadata(document_ids[i]) ELSE document_ids[i]]
  IN IF Len(filenames) = 1 THEN [op |-> "eq", values |-> filenames]
     ELSE [op |-> "in", values |-> filenames]

NoFilter == [op |-> "none", values |-> <<>>]

\* self.collection.query(query_texts, n_results, where): the n_results
\* nearest items that satisfy where
collection_query(store, n_results, where) ==
  first_n(SelectSeq(store, LAMBDA hit : condition_holds(where, <<hit.metadata.filename>>)),
          n_results)

\* keeping every hit whatever its similarity
threshold_skipped(similarity, threshold) == TRUE

\* result['similarity'] >= threshold, line 169
passes_threshold(similarity, threshold) == f_le(threshold, similarity)

\* lines 156-164
formatted_result(hit) ==
  [id |-> hit.id, document |-> hit.document, content |-> hit.document,
   similarity |-> similarity_of(hit.distance), distance |-> hit.distance,
   metadata |-> hit.metadata]

\* lines 102-123: the scoped query; when it finds nothing, a second query
\* without filter, whose hits are used when there are any
search_results(store, n_results, where) ==
  LET results == collection_query(store, n_results, where)
      scoped == [n_results |-> n_results, where |-> where]
      results_no_filter == collection_query(store, n_results, NoFilter)
      unscoped == [n_results |-> n_results, where |-> NoFilter]
  IN IF results # <<>> THEN [results |-> results, queries |-> <<scoped>>]
     ELSE [results |-> results_no_filter, queries |-> <<scoped, unscoped>>]

\* VectorStoreWrapper.similarity_search_with_filter: the formatted results,
\* the queries made of the engine and the raw hits of the last one.  Every
\* exception ends in the empty list: the unbound filenames of line 80 when
\* document_ids is empty, a failure of collection.get (line 84) or of
\* collection.query (line 102).
similarity_search_with_filter(store, engine, document_ids, n_results, threshold) ==
  IF document_ids = <<>> \/ engine = "get_fails"
    THEN [results |-> <<>>, queries |-> <<>>, raw |-> <<>>]
  ELSE IF engine = "query_fails"
    THEN [results |-> <<>>, raw |-> <<>>,
          queries |-> << [n_results |-> n_results, where |-> filename_filter(document_ids)] >>]
  ELSE LET found == search_results(store, n_results, filename_filter(document_ids))
           chunks == SelectSeq(found.results, LAMBDA hit : ~is_metadata_id(hit.id))
           formatted == [i \in DOMAIN chunks |-> formatted_result(chunks[i])]
       IN [results |-> SelectSeq(formatted,
                         LAMBDA r : passes_threshold(r.similarity, threshold)),
           queries |-> found.queries,
           raw |-> found.results]

\* [doc.get('id') for doc in documents], the records without id included
doc_ids_unfiltered(documents) == [i \in DOMAIN documents |-> documents[i].id]

\* [doc.get('id') for doc in documents if doc.get('id')]
doc_ids_of(documents) ==
  LET with_id == SelectSeq(documents, LAMBDA doc : doc.id # <<>>)
  IN [i \in DOMAIN with_id |-> with_id[i].id]

\* lines 129-139 of _process_chunks
processed_chunk(chunk) ==
  [content |-> chunk.document, similarity_score |-> chunk.similarity,
   metadata |-> chunk.metadata, chunk_id |-> chunk.id,
   company |-> chunk.metadata.company, year |-> chunk.metadata.year]

\* the processed chunks left in the order of the search
sort_skipped(chunks) == chunks

\* list.sort(key=similarity_score, reverse=True): descending, and chunks of
\* equal score keep their order
RECURSIVE sort_by_similarity(_)
sort_by_similarity(chunks) ==
  IF chunks = <<>> THEN <<>>
  ELSE LET rest == sort_by_similarity(Tail(chunks))
           x == Head(chunks)
           before == SelectSeq(rest, LAMBDA c : f_lt(x.similarity_score, c.similarity_score))
           after == SelectSeq(rest, LAMBDA c : ~f_lt(x.similarity_score, c.similarity_score))
       IN before \o <<x>> \o after

\* Retriever._process_chunks
process_chunks(raw_chunks) ==
  LET all == [i \in DOMAIN raw_chunks |-> processed_chunk(raw_chunks[i])]
  IN sort_by_similarity(SelectSeq(all, LAMBDA c : strip(c.content) # <<>>))

\* Retriever._calculate_avg_similarity
calculate_avg_similarity(chunks) ==
  IF chunks = <<>> THEN F(0, 1)
  ELSE LET total == f_sum([i \in DOMAIN chunks |-> chunks[i].similarity_score])
       IN F(total.num, total.den * Len(chunks))

empty_result == [chunks |-> <<>>, total_chunks |-> 0, avg_similarity |-> F(0, 1)]

NoSearch == [results |-> <<>>, queries |-> <<>>, raw |-> <<>>]

\* Retriever.retrieve: the RetrievalResult and the search it made
retrieve(store, engine, selected_documents, top_k, similarity_threshold) ==
  IF selected_documents = <<>> THEN [result |-> empty_result, search |-> NoSearch]
  ELSE IF doc_ids_of(selected_documents) = <<>>
    THEN [result |-> empty_result, search |-> NoSearch]
  ELSE LET search == similarity_search_with_filter(store, engine,
                        doc_ids_of(selected_documents), top_k, similarity_threshold)
           processed_chunks == process_chunks(search.results)
       IN [result |-> [chunks |-> processed_chunks,
                       total_chunks |-> Len(processed_chunks),
                       avg_similarity |-> calculate_avg_similarity(processed_chunks)],
           search |-> search]

\* RAGService._retrieve_chunks: the chunks and the search it made
retrieve_chunks(store, engine, documents, top_k) ==
  IF documents = <<>> THEN NoSearch
  ELSE similarity_search_with_filter(store, engine, doc_ids_of(documents), top_k, F(1, 10))

RvIdle ==
  /\ rv_pc = "idle" /\ rv_entry = "none" /\ rv_documents = <<>> /\ rv_top_k = 0
  /\ rv_threshold = F(0, 1) /\ rv_store = <<>> /\ rv_engine = "up"
  /\ rv_queries = <<>> /\ rv_raw = <<>> /\ rv_result = <<>>

RvInit ==
  /\ rv_pc = "call"
  /\ rv_entry \in {"retrieve", "retrieve_chunks"}
  /\ rv_documents \in SeqsUpTo(Candidates, MaxCandidates)
  /\ rv_top_k \in TopKs
  /\ rv_threshold \in IF rv_entry = "retrieve" THEN Thresholds ELSE {F(1, 10)}
  /\ rv_store \in Stores
  /\ rv_engine \in {"up", "get_fails", "query_fails"}
  /\ rv_queries = <<>> /\ rv_raw = <<>> /\ rv_result = <<>>

Retrieve ==
  /\ rv_pc = "call" /\ rv_entry = "retrieve"
  /\ LET out == retrieve(rv_store, rv_engine, rv_documents, rv_top_k, rv_threshold)
     IN /\ rv_result' = out.result
        /\ rv_queries' = out.search.queries
        /\ rv_raw' = out.search.raw
  /\ rv_pc' = "returned"
  /\ UNCHANGED <<rv_entry, rv_documents, rv_top_k, rv_threshold, rv_store, rv_engine>>
  /\ RvFrame

RetrieveChunks ==
  /\ rv_pc = "call" /\ rv_entry = "retrieve_chunks"
  /\ LET out == retrieve_chunks(rv_store, rv_engine, rv_documents, rv_top_k)
     IN /\ rv_result' = [chunks |-> out.results]
        /\ rv_queries' = out.queries
        /\ rv_raw' = out.raw
  /\ rv_pc' = "returned"
  /\ UNCHANGED <<rv_entry, rv_documents, rv_top_k, rv_threshold, rv_store, rv_engine>>
  /\ RvFrame

-----------------------------------------------------------------------------
(* The similarity of one raw distance                                       *)

\* Raw distances range over the multiples of 1/DistanceScale between
\* -MaxDistanceUnits/DistanceScale and MaxDistanceUnits/DistanceScale, and
\* over the special values.
MaxDistanceUnits == 60

Distances ==
  {F(n, DistanceScale) : n \in (0 - MaxDistanceUnits)..MaxDistanceUnits}
  \cup {NaN, PosInf, NegInf}

SmIdle == sm_pc = "idle" /\ sm_distance = F(0, 1) /\ sm_similarity = F(0, 1)

SmInit == sm_pc = "raw" /\ sm_distance \in Distances /\ sm_similarity = F(0, 1)

\* lines 138-154, for one hit
ComputeSimilarity ==
  /\ sm_pc = "raw"
  /\ sm_similarity' = similarity_of(sm_distance)
  /\ sm_pc' = "computed"
  /\ UNCHANGED sm_distance
  /\ SmFrame

-----------------------------------------------------------------------------
(* PredictionService._parse_horizon                                         *)

\* Dates are days counted from 1 January EpochYear (day 0, a Monday), over
\* the years EpochYear..LastYear.
EpochYear == 2024
LastYear == 2027

IsLeap(y) == (y % 4 = 0 /\ y % 100 # 0) \/ y % 400 = 0

DaysInMonth(y, m) ==
  IF m = 2 THEN (IF IsLeap(y) THEN 29 ELSE 28)
  ELSE IF m \in {4, 6, 9, 11} THEN 30 ELSE 31

RECURSIVE DaysBeforeMonth(_, _)
DaysBeforeMonth(y, m) ==
  IF m = 1 THEN 0 ELSE DaysBeforeMonth(y, m - 1) + DaysInMonth(y, m - 1)

RECURSIVE DaysBeforeYear(_)
DaysBeforeYear(y) ==
  IF y = EpochYear THEN 0
  ELSE DaysBeforeYear(y - 1) + (IF IsLeap(y - 1) THEN 366 ELSE 365)

\* the day number of the date y-m-d
Date(y, m, d) == DaysBeforeYear(y) + DaysBeforeMonth(y, m) + (d - 1)

\* datetime(year, month, 1): a ValueError for a month outside 1..12
datetime_first_of_month(year, month) ==
  IF month \in 1..12 /\ year \in EpochYear..LastYear
  THEN Ok(Date(year, month, 1)) ELSE Raise("ValueError")

IsBusinessDay(day) == day % 7 \in 0..4

\* np.busday_count(begin, end): the business days in [begin, end), and for
\* end before begin minus the business days in (end, begin]
busday_count(begin, end) ==
  IF begin <= end
  THEN Cardinality({day \in begin..(end - 1) : IsBusinessDay(day)})
  ELSE 0 - Cardinality({day \in (end + 1)..begin : IsBusinessDay(day)})

Max(a, b) == IF a >= b THEN a ELSE b

\* the step count without the floor of 10
floor_skipped(business_days) == business_days

\* max(10, business_days)
floor_steps(business_days) == Max(10, business_days)

\* str.split(): the maximal runs of characters that are not whitespace
RECURSIVE split(_)
split(s) ==
  LET rest == strip_left(s)
      WordEnd == IF \E i \in DOMAIN rest : rest[i] \in Whitespace
                 THEN (CHOOSE i \in DOMAIN rest :
                         /\ rest[i] \in Whitespace
                         /\ \A j \in 1..(i - 1) : rest[j] \notin Whitespace) - 1
                 ELSE Len(rest)
  IN IF rest = <<>> THEN <<>>
     ELSE <<SubSeq(rest, 1, WordEnd)>> \o split(SubSeq(rest, WordEnd + 1, Len(rest)))

\* int(s) for a string
int_of_str(s) == int_of(JStr(s))

Horizon(target_date, steps) == [target_date |-> target_date, steps |-> steps]

\* lines 33-46: the quarter branch
parse_quarter(today, horizon_str) ==
  LET parts == split(upper(horizon_str))
  IN IF Len(parts) # 2 THEN Raise("ValueError")
     ELSE LET quarter_num == int_of_str(Tail(parts[1]))
              year_num == int_of_str(parts[2])
          IN IF quarter_num.status = "raise" THEN quarter_num
             ELSE IF year_num.status = "raise" THEN year_num
             ELSE LET first == datetime_first_of_month(year_num.value, quarter_num.value * 3)
                  IN IF first.status = "raise" THEN first
                     ELSE Ok(Horizon(first.value - 1,
                                     floor_steps(busday_count(today, first.value - 1))))

\* lines 50-56: the month branch
parse_months(today, horizon_str) ==
  LET months == int_of_str(split(horizon_str)[1])
  IN IF months.status = "raise" THEN months
     ELSE Ok(Horizon(today + 30 * months.value,
                     floor_steps(busday_count(today, today + 30 * months.value))))

\* PredictionService._parse_horizon
parse_horizon(today, horizon_str) ==
  IF IsSubstring(<<"Q">>, upper(horizon_str))
    THEN parse_quarter(today, horizon_str)
  ELSE IF IsSubstring(<<"m","o","n","t","h">>, lower(horizon_str))
    THEN parse_months(today, horizon_str)
  ELSE Ok(Horizon(today + 90, 60))

DigitChar(n) == <<"0","1","2","3","4","5","6","7","8","9">>[n + 1]

\* str(n) for a natural number
RECURSIVE str_of_nat(_)
str_of_nat(n) ==
  IF n < 10 THEN <<DigitChar(n)>> ELSE str_of_nat(n \div 10) \o <<DigitChar(n % 10)>>

\* the expression "Qq y", and "N months"
QuarterText(q, y) == <<"Q">> \o str_of_nat(q) \o <<" ">> \o str_of_nat(y)
MonthsText(n) == str_of_nat(n) \o <<" ","m","o","n","t","h","s">>

\* The quarters and numbers of months that the expressions name.
QuarterYears == 2025..2026
MaxMonths == 12

QuarterExpressions == {QuarterText(q, y) : q \in 1..4, y \in QuarterYears}
MonthExpressions == {MonthsText(n) : n \in 0..MaxMonths} \cup {<<"1"," ","M","o","n","t","h">>}

\* expressions that name neither: period codes, other units, nothing
OtherExpressions ==
  {<<"3","m","o">>,
   <<"1","y">>,
   <<>>,
   <<"n","e","x","t"," ","y","e","a","r">>,
   <<"9","0"," ","d","a","y","s">>}

\* expressions that name neither but hold a Q or the word month
MalformedExpressions ==
  {<<"n","e","x","t"," ","q","u","a","r","t","e","r">>,
   <<"Q","4">>,
   <<"Q","5"," ","2","0","2","5">>,
   <<"Q","0"," ","2","0","2","5">>,
   <<"s","i","x"," ","m","o","n","t","h","s">>,
   <<"n","e","x","t"," ","m","o","n","t","h">>,
   <<"e","n","d"," ","o","f"," ","Q","4"," ","2","0","2","5">>,
   <<"2","0","2","5"," ","Q","4">>}

\* the quarter expression in lower case
LowerCaseQuarter == lower(QuarterText(4, 2025))

HorizonExpressions ==
  QuarterExpressions \cup MonthExpressions \cup OtherExpressions
    \cup MalformedExpressions \cup {LowerCaseQuarter}

\* today ranges over FirstToday .. FirstToday + MaxTodayOffset
FirstToday == Date(2025, 1, 1)
MaxTodayOffset == 400

NoHorizon == Raise("none")

HzIdle == hz_pc = "idle" /\ hz_today = 0 /\ hz_horizon = <<>> /\ hz_outcome = NoHorizon

HzInit ==
  /\ hz_pc = "call"
  /\ hz_today \in FirstToday..(FirstToday + MaxTodayOffset)
  /\ hz_horizon \in HorizonExpressions
  /\ hz_outcome = NoHorizon

ParseHorizon ==
  /\ hz_pc = "call"
  /\ hz_outcome' = parse_horizon(hz_today, hz_horizon)
  /\ hz_pc' = IF hz_outcome'.status = "ok" THEN "returned" ELSE "raised"
  /\ UNCHANGED <<hz_today, hz_horizon>>
  /\ HzFrame

-----------------------------------------------------------------------------
(* Answer generation: RAGService._generate_answer and                       *)
(* ResponseGenerator.generate_answer                                        *)

NoRelevantInformation ==
  <<"I couldn't find any relevant information to answer your question.">>
GenerationApology ==
  <<"I apologize, but I encountered an error while generating the answer. Please try again.">>
GeneratedAnswer == <<"<text of the completion>">>

\* A call passes at most MaxAnswerChunks chunks.
MaxAnswerChunks == 6

\* the hits behind the chunks handed to the generators: of two files, one
\* with a blank text
AnswerHits ==
  { Hit("chunk_", "apple_2023.pdf", Text, 1),
    Hit("chunk_", "tesla_2023.pdf", Text, 2),
    Hit("chunk_", "apple_2024.pdf", Blank, 3) }

\* The chunks handed to the generators.  _generate_answer gets the results
\* of similarity_search_with_filter in the order of the engine,
\* ResponseGenerator.generate_answer the chunks of a RetrievalResult, which
\* _process_chunks has freed of blank texts and sorted.
AnswerChunks(entry) ==
  IF entry = "RAGService._generate_answer"
    THEN {s \in SeqsUpTo({formatted_result(hit) : hit \in AnswerHits}, MaxAnswerChunks) :
            \A i, j \in DOMAIN s : i < j => f_le(s[i].distance, s[j].distance)}
  ELSE {s \in SeqsUpTo({processed_chunk(formatted_result(hit)) : hit \in AnswerHits},
                        MaxAnswerChunks) :
          process_chunks([i \in DOMAIN s |->
                            [document |-> s[i].content, similarity |-> s[i].similarity_score,
                             metadata |-> s[i].metadata, id |-> s[i].chunk_id]]) = s}

\* chunks[:5], lines 210 of rag_service.py and 68 of response_generator.py
ContextChunks == 5

Unknown == <<"U","n","k","n","o","w","n">>

\* chunk.get(key, 'Unknown')
chunk_get(chunk, key) == IF key \in DOMAIN chunk THEN chunk[key] ELSE Unknown

\* ResponseGenerator._prepare_context, and lines 209-217 of
\* _generate_answer: the entries "Document n (company, year): content" of
\* the first five chunks, those of blank content left out
prepare_context(chunks) ==
  LET top == first_n(chunks, ContextChunks)
      numbers == SelectSeq([i \in DOMAIN top |-> i],
                           LAMBDA i : strip(chunk_get(top[i], "content")) # <<>>)
  IN [k \in DOMAIN numbers |->
        [number |-> numbers[k],
         company |-> chunk_get(top[numbers[k]], "company"),
         year |-> chunk_get(top[numbers[k]], "year"),
         content |-> chunk_get(top[numbers[k]], "content")]]

\* no prompt was made
NoContext == << [number |-> 0] >>

\* what a generator hands back: its answer, or the exception that leaves
\* it, and the completion calls it made
Answered(answer, calls) == [status |-> "ok", answer |-> answer, calls |-> calls]
Failed(exc, calls) == [status |-> "raise", answer |-> <<>>, exc |-> exc, calls |-> calls]

\* _generate_answer without its except clause
generate_answer_propagates(chunks, client, completion) ==
  IF client = "fails" THEN Failed("OpenAIError", <<>>)
  ELSE IF chunks = <<>> THEN Answered(NoRelevantInformation, <<>>)
  ELSE IF completion = "fails" THEN Failed("APIError", <<"completion:answer">>)
  ELSE Answered(GeneratedAnswer, <<"completion:answer">>)

\* RAGService._generate_answer, rag_service.py:199-250.  client: whether
\* OpenAI(api_key=...) can be built; completion: whether the call succeeds.
generate_answer(chunks, client, completion) ==
  IF client = "fails" THEN Answered(GenerationApology, <<>>)
  ELSE IF chunks = <<>> THEN Answered(NoRelevantInformation, <<>>)
  ELSE IF completion = "fails" THEN Answered(GenerationApology, <<"completion:answer">>)
  ELSE Answered(GeneratedAnswer, <<"completion:answer">>)

\* ResponseGenerator.generate_answer, response_generator.py:12-59: without
\* chunks the context is "No relevant documents found." and the call is made
response_generator_generate_answer(retrieved_chunks, client, completion) ==
  IF client = "fails" THEN Answered(GenerationApology, <<>>)
  ELSE IF completion = "fails" THEN Answered(GenerationApology, <<"completion:answer">>)
  ELSE Answered(GeneratedAnswer, <<"completion:answer">>)

GaIdle ==
  /\ ga_pc = "idle" /\ ga_entry = "none" /\ ga_chunks = <<>> /\ ga_client = "ok"
  /\ ga_completion = "ok" /\ ga_calls = <<>> /\ ga_answer = <<>>
  /\ ga_context = NoContext

GaInit ==
  /\ ga_pc = "call"
  /\ ga_entry \in {"RAGService._generate_answer", "ResponseGenerator.generate_answer"}
  /\ ga_chunks \in AnswerChunks(ga_entry)
  /\ ga_client \in {"ok", "fails"}
  /\ ga_completion \in {"ok", "fails"}
  /\ ga_calls = <<>> /\ ga_answer = <<>>
  /\ ga_context = NoContext

\* the call returns, or its exception leaves it
Generated(out) ==
  /\ ga_calls' = out.calls
  /\ IF out.status = "ok"
       THEN ga_pc' = "returned" /\ ga_answer' = out.answer
       ELSE ga_pc' = "raised" /\ UNCHANGED ga_answer
  /\ UNCHANGED <<ga_entry, ga_chunks, ga_client, ga_completion>>
  /\ GaFrame

GenerateAnswer ==
  /\ ga_pc = "call" /\ ga_entry = "RAGService._generate_answer"
  /\ ga_context' = IF ga_client = "fails" \/ ga_chunks = <<>> THEN NoContext
                   ELSE prepare_context(ga_chunks)
  /\ Generated(generate_answer(ga_chunks, ga_client, ga_completion))

ResponseGeneratorGenerateAnswer ==
  /\ ga_pc = "call" /\ ga_entry = "ResponseGenerator.generate_answer"
  /\ ga_context' = IF ga_client = "fails" THEN NoContext ELSE prepare_context(ga_chunks)
  /\ Generated(response_generator_generate_answer(ga_chunks, ga_client, ga_completion))

-----------------------------------------------------------------------------
(* RAGService.process_query, as the retrieval branch of the router calls it *)

\* A request selects at most MaxSelected documents.
MaxSelected == 2

\* The identifiers a caller can select: of stored files, with and without
\* the prefix of the file-level items, of a file the index does not hold,
\* and of a chunk.
SelectedIds ==
  { <<"metadata_", "apple_2023.pdf">>, <<"tesla_2023.pdf">>,
    <<"metadata_", "doc_1">>, <<"doc_1">>, <<"chunk_", "apple_2023.pdf">> }

AppleCapitalised == <<"A","p","p","l","e">>

\* What the completion service can answer to the prompt of _extract_intent:
\* the call raises, the body is no JSON, the body is JSON but no object, or
\* an object with its companies and years.
RagIntentResponses ==
  {[kind |-> "error"], [kind |-> "text"], [kind |-> "json"]}
  \cup
  [kind : {"object"},
   companies : {<<>>, <<AppleCapitalised>>, <<Apple>>, <<Apple, Tesla>>},
   years : {<<>>, <<2023>>}]

\* VectorStoreWrapper.get_document_by_id: the document in a list of one, the
\* empty list for None
get_document_by_id(collection, doc_id, engine) ==
  IF engine = "get_fails" THEN <<>>
  ELSE LET id == IF is_metadata_id(doc_id) THEN doc_id ELSE <<"metadata_">> \o doc_id
           results == SelectSeq(collection, LAMBDA item : item.id = id)
       IN IF results # <<>> THEN << doc_info(results[1]) >> ELSE <<>>

\* the parsed body as _extract_intent returns it
IntentDict(companies, years) == [t |-> "dict", companies |-> companies, years |-> years]

\* RAGService._extract_intent: the value it returns and the calls it makes;
\* every exception ends in the intent without companies and years
extract_intent(client, resp) ==
  IF client = "fails" THEN [result |-> IntentDict(<<>>, <<>>), calls |-> <<>>]
  ELSE LET calls == <<"vector_store.get_all_companies", "vector_store.get_all_years",
                      "completion:intent">>
       IN IF resp.kind \in {"error", "text"}
            THEN [result |-> IntentDict(<<>>, <<>>), calls |-> calls]
          ELSE IF resp.kind = "json"
            THEN [result |-> [t |-> "list", companies |-> <<>>, years |-> <<>>], calls |-> calls]
          ELSE [result |-> IntentDict(resp.companies, resp.years), calls |-> calls]

\* a where predicate that no year restricts
AnyYear == [company |-> where_condition(<<>>), year |-> where_condition(<<>>)]

\* where={"year": {"$in": [2024, 2023, 2022]}}
RecentYears ==
  [company |-> where_condition(<<>>), year |-> where_condition(<<2024, 2023, 2022>>)]

\* lines 141-157 of _filter_by_intent: the where predicate of an intent
\* that names a company or a year, its values as the intent holds them
intent_where(intent) ==
  where_conditions([companies |-> intent.companies, years |-> intent.years])

\* RAGService._filter_by_intent: the documents, the description of the
\* filter and the where predicate queried
rag_filter_by_intent(intent, collection, engine) ==
  IF intent.t # "dict" THEN Raise("AttributeError")
  ELSE LET named == intent.companies # <<>> \/ intent.years # <<>>
           where == IF named THEN intent_where(intent) ELSE RecentYears
           documents == get_documents_with_filters(collection, where, engine = "get_fails")
       IN Ok([documents |-> documents.value,
              filter_applied |-> IF named THEN "Intent-based" ELSE "Recent documents (last 3 years)",
              wheres |-> <<where>>,
              calls |-> <<"vector_store.get_documents_with_filters">>])

\* lines 102-107 of _filter_documents: the documents of the extracted intent
documents_of_intent(collection, engine, client, resp) ==
  LET intent == extract_intent(client, resp)
      filtered == rag_filter_by_intent(intent.result, collection, engine)
  IN IF filtered.status = "raise" THEN [filtered EXCEPT !.value = intent.calls]
     ELSE Ok([filtered.value EXCEPT !.calls = intent.calls \o @])

\* _filter_documents taking the intent path whatever the caller selected
filter_documents_ignoring_selection(selected_documents, collection, engine, client, resp) ==
  documents_of_intent(collection, engine, client, resp)

\* RAGService._filter_documents: the selected documents looked up one by
\* one, or the documents of the extracted intent
filter_documents(selected_documents, collection, engine, client, resp) ==
  IF selected_documents # <<>>
    THEN LET docs == [i \in DOMAIN selected_documents |->
                        get_document_by_id(collection, selected_documents[i], engine)]
             found == SelectSeq(docs, LAMBDA doc : doc # <<>>)
         IN Ok([documents |-> [i \in DOMAIN found |-> found[i][1]],
                filter_applied |-> "User-selected documents",
                wheres |-> <<>>,
                calls |-> [i \in DOMAIN selected_documents |-> "vector_store.get_document_by_id"]])
  ELSE documents_of_intent(collection, engine, client, resp)

\* process_query going on to the retrieval without candidate documents
no_documents_ignored(documents) == FALSE

\* if not documents, line 47 of process_query
no_documents(documents) == documents = <<>>

\* RAGService._analyze_sentiment: the completion call it makes; its result
\* is no part of the answer and no exception leaves it
analyze_sentiment(chunks, client) ==
  IF client = "fails" \/ chunks = <<>> THEN <<>> ELSE <<"completion:sentiment">>

RagResult(answer, chunks_used, filter_applied) ==
  [answer |-> answer, chunks_used |-> chunks_used, filter_applied |-> filter_applied]

\* the except clause of process_query, lines 75-83
rag_failure == RagResult(RagErrorAnswer, 0, "Error")

\* _extract_intent was not called
NotExtracted == [t |-> "none", companies |-> <<>>, years |-> <<>>]

\* RAGService.process_query: its RAGResult and what it did on the way; intent
\* is what _extract_intent returned to _filter_documents
rag_process_query(selected_documents, collection, store, engine, client, completion, resp) ==
  LET filtered == filter_documents(selected_documents, collection, engine, client, resp)
      intent == IF selected_documents # <<>> THEN NotExtracted
                ELSE extract_intent(client, resp).result
  IN IF filtered.status = "raise"
       THEN [result |-> rag_failure, documents |-> <<>>, wheres |-> <<>>, queries |-> <<>>,
             intent |-> intent, calls |-> filtered.value]
     ELSE LET f == filtered.value
          IN IF no_documents(f.documents)
               THEN [result |-> RagResult(NoDocumentsAnswer, 0, f.filter_applied),
                     documents |-> <<>>, wheres |-> f.wheres, queries |-> <<>>,
                     intent |-> intent, calls |-> f.calls]
             ELSE LET search == retrieve_chunks(store, engine, f.documents, 10)
                      chunks == search.results
                      generated == generate_answer(chunks, client, completion)
                      calls == f.calls \o <<"vector_store.similarity_search_with_filter">>
                                 \o generated.calls
                  IN [result |-> IF generated.status = "raise" THEN rag_failure
                                 ELSE RagResult(generated.answer, Len(chunks), f.filter_applied),
                      documents |-> f.documents, wheres |-> f.wheres,
                      queries |-> search.queries,
                      intent |-> intent,
                      calls |-> IF generated.status = "raise" THEN calls
                                ELSE calls \o analyze_sentiment(chunks, client)]

\* lines 213-224 of _handle_rag_query: the RouterResult of a RAGResult
handle_rag_query(result) ==
  [source |-> "rag", answer |-> result.answer,
   data |-> [chunks_used |-> result.chunks_used, filter_applied |-> result.filter_applied]]

NoRagResult == [source |-> "none", answer |-> <<>>,
                data |-> [chunks_used |-> 0, filter_applied |-> "none"]]

RgIdle ==
  /\ rg_pc = "idle" /\ rg_selected = <<>> /\ rg_collection = <<>> /\ rg_store = <<>>
  /\ rg_engine = "up" /\ rg_client = "ok" /\ rg_completion = "ok"
  /\ rg_calls = <<>> /\ rg_wheres = <<>> /\ rg_documents = <<>> /\ rg_queries = <<>>
  /\ rg_intent = NotExtracted
  /\ rg_result = NoRagResult

\* The index holds no item at all, or the files of Collections with chunks.
RgInit ==
  /\ rg_pc = "call"
  /\ rg_selected \in SeqsUpTo(SelectedIds, MaxSelected)
  /\ rg_collection \in Collections
  /\ rg_store \in Stores
  /\ (rg_collection = <<>>) <=> (rg_store = <<>>)
  /\ rg_engine \in {"up", "get_fails", "query_fails"}
  /\ rg_client \in {"ok", "fails"}
  /\ rg_completion \in {"ok", "fails"}
  /\ rg_calls = <<>> /\ rg_wheres = <<>> /\ rg_documents = <<>> /\ rg_queries = <<>>
  /\ rg_intent = NotExtracted
  /\ rg_result = NoRagResult

\* _handle_rag_query calls process_query and wraps its result
ProcessQuery ==
  /\ rg_pc = "call"
  /\ \E resp \in RagIntentResponses :
       LET out == rag_process_query(rg_selected, rg_collection, rg_store, rg_engine,
                                    rg_client, rg_completion, resp)
       IN /\ rg_result' = handle_rag_query(out.result)
          /\ rg_calls' = out.calls
          /\ rg_wheres' = out.wheres
          /\ rg_intent' = out.intent
          /\ rg_documents' = out.documents
          /\ rg_queries' = out.queries
  /\ rg_pc' = "returned"
  /\ UNCHANGED <<rg_selected, rg_collection, rg_store, rg_engine, rg_client, rg_completion>>
  /\ RgFrame

-----------------------------------------------------------------------------
(* Specifications *)

InitKeyword == KaInit /\ RqIdle /\ SgIdle /\ RtIdle /\ FlIdle /\ RvIdle /\ SmIdle /\ HzIdle /\ GaIdle /\ RgIdle
NextKeyword == SimpleAnalysis
SpecKeyword == InitKeyword /\ [][NextKeyword]_vars

InitRouter == RqInit /\ KaIdle /\ SgIdle /\ RtIdle /\ FlIdle /\ RvIdle /\ SmIdle /\ HzIdle /\ GaIdle /\ RgIdle
NextRouter ==
  \/ RouteQuery
  \/ AnalyzeQuery
  \/ Dispatch
  \/ HandleRag
  \/ HandleFinance
  \/ FallbackFinance
  \/ HandleMixed
SpecRouter == InitRouter /\ [][NextRouter]_vars
\* A call of route_query runs on: the interpreter takes the next step of a
\* request that has one.
SpecRouterLive == SpecRouter /\ WF_vars(NextRouter)

InitSingleton == SgInit /\ KaIdle /\ RqIdle /\ RtIdle /\ FlIdle /\ RvIdle /\ SmIdle /\ HzIdle /\ GaIdle /\ RgIdle
NextSingleton ==
  \E r \in Requests :
    \/ CallGetter(r)
    \/ CheckNone(r)
    \/ Construct(r)
    \/ Store(r)
    \/ ReturnHandle(r)
SpecSingleton == InitSingleton /\ [][NextSingleton]_vars

InitRetry == RtInit /\ KaIdle /\ RqIdle /\ SgIdle /\ FlIdle /\ RvIdle /\ SmIdle /\ HzIdle /\ GaIdle /\ RgIdle
NextRetry ==
  \/ ExtractEnter
  \/ ExtractAttempt
  \/ ExtractLoopOver
  \/ ClassifyEnter
  \/ ClassifyAttempt
  \/ ClassifyLoopOver
SpecRetry == InitRetry /\ [][NextRetry]_vars

InitFilter == FlInit /\ KaIdle /\ RqIdle /\ SgIdle /\ RtIdle /\ RvIdle /\ SmIdle /\ HzIdle /\ GaIdle /\ RgIdle
NextFilter == FilterByIntent
SpecFilter == InitFilter /\ [][NextFilter]_vars

InitRetrieve == RvInit /\ KaIdle /\ RqIdle /\ SgIdle /\ RtIdle /\ FlIdle /\ SmIdle /\ HzIdle /\ GaIdle /\ RgIdle
NextRetrieve ==
  \/ Retrieve
  \/ RetrieveChunks
SpecRetrieve == InitRetrieve /\ [][NextRetrieve]_vars

InitSimilarity == SmInit /\ KaIdle /\ RqIdle /\ SgIdle /\ RtIdle /\ FlIdle /\ RvIdle /\ HzIdle /\ GaIdle /\ RgIdle
NextSimilarity == ComputeSimilarity
SpecSimilarity == InitSimilarity /\ [][NextSimilarity]_vars

InitHorizon == HzInit /\ KaIdle /\ RqIdle /\ SgIdle /\ RtIdle /\ FlIdle /\ RvIdle /\ SmIdle /\ GaIdle /\ RgIdle
NextHorizon == ParseHorizon
SpecHorizon == InitHorizon /\ [][NextHorizon]_vars

PredicateInits == (FlInit /\ RgIdle) \/ (RgInit /\ FlIdle)
InitPredicate == PredicateInits /\ KaIdle /\ RqIdle /\ SgIdle /\ RtIdle /\ RvIdle /\ SmIdle /\ HzIdle /\ GaIdle
NextPredicate == FilterByIntent \/ ProcessQuery
SpecPredicate == InitPredicate /\ [][NextPredicate]_vars

RagInits == (RgInit /\ GaIdle) \/ (GaInit /\ RgIdle)
InitRag == RagInits /\ KaIdle /\ RqIdle /\ SgIdle /\ RtIdle /\ FlIdle /\ RvIdle /\ SmIdle /\ HzIdle
NextRag == ProcessQuery \/ GenerateAnswer \/ ResponseGeneratorGenerateAnswer
SpecRag == InitRag /\ [][NextRag]_vars

-----------------------------------------------------------------------------
(* Properties of QueryRouter.route_query (SpecRouter)                       *)

Handlers == {"rag", "finance", "mixed"}
InHandler == rq_pc \in {"rag", "finance", "fallback_finance", "mixed"}
AnalysisCalls == Cardinality({i \in DOMAIN rq_calls : rq_calls[i] = "completion:analysis"})
Analysed == rq_pc \notin {"idle", "start", "analyzing"}

Apologetic(answer) ==
  answer \in {ErrorAnswer, RagErrorAnswer, RagHandlerApology, FinanceApology}

\* C1: every request is analysed and then dispatched to exactly one branch,
\* the one of its analysed type (rag, finance, mixed; rag for any other
\* value); a request that has ended has had exactly one branch dispatched.
C1_ExactlyOneBranch ==
  /\ InHandler => rq_dispatched = <<branch_of(rq_analysis.query_type)>>
  /\ rq_pc = "done" => rq_dispatched = <<branch_of(rq_analysis.query_type)>>
  /\ Len(rq_dispatched) <= 1

\* C2 as stated: route_query does not raise, and an exception inside a
\* handler that no fallback recovered ends the request with source = error
\* and an apologetic answer.
C2_HandlerFailureIsError ==
  /\ ~rq_raised
  /\ (rq_pc = "done" /\ rq_unrecovered \in Handlers) =>
        rq_result.source = "error" /\ Apologetic(rq_result.answer)

\* C2 amended: route_query does not raise and returns a result; an exception
\* inside a handler that no fallback recovered ends the request with an
\* apologetic answer under the source of that branch (rag, finance, mixed);
\* source = error, with the apologetic answer, is the result exactly when
\* the exception was raised outside the handlers, and then no handler was
\* called; a finished request runs no handler again.
C2_HandlerFailureKeepsBranchSource ==
  /\ ~rq_raised
  /\ rq_pc = "done" =>
       /\ rq_result # NoResult
       /\ rq_unrecovered \in Handlers =>
            /\ rq_result.source = rq_unrecovered
            /\ Apologetic(rq_result.answer)
            /\ rq_dispatched = <<rq_unrecovered>>
       /\ rq_result.source = "error" <=> rq_unrecovered = "routing"
       /\ rq_result.source = "error" =>
            rq_result.answer = ErrorAnswer /\ rq_dispatched = <<>>
       /\ ~ENABLED NextRouter
  /\ Len(rq_dispatched) <= 1

\* C2 witness: the mixed handler failed and the request has ended.
C2_Witness == rq_pc = "done" /\ rq_unrecovered = "mixed"

\* C3: the analysis makes at most one completion call, and when that call
\* failed or its body was not JSON the analysis is the keyword analysis of
\* the question.
C3_OneCallThenKeywords ==
  /\ AnalysisCalls <= 1
  /\ (Analysed /\ rq_response.kind \in {"error", "text"}) =>
        /\ rq_analysis = simple_analysis(rq_question)
        /\ AnalysisCalls = 1

\* C3 witness: the body of the one completion call was not JSON.
C3_Witness == rq_pc = "done" /\ rq_response.kind = "text" /\ AnalysisCalls = 1

-----------------------------------------------------------------------------
(* Properties of the keyword analysis (SpecKeyword)                         *)

MarketCount == keyword_score(finance_keywords, lower(ka_question))
NarrativeCount == keyword_score(rag_keywords, lower(ka_question))
TickersFound == find_symbols(upper(ka_question)) # <<>>

\* C4 as stated: market at min(0.9, m/5) when m > n; retrieval when n > m;
\* market at 0.7 when the scores tie at zero and a ticker was found;
\* retrieval at 0.5 in every remaining case.
C4_TieAtZeroOnly ==
  ka_pc = "returned" =>
    LET m == MarketCount
        n == NarrativeCount
        a == ka_analysis
    IN CASE m > n /\ m > 0 ->
              /\ a.query_type = "finance"
              /\ a.confidence = JNum(Min(90, 20 * m))
              /\ a.confidence.v > 0
         [] n > m /\ n > 0 -> a.query_type = "rag"
         [] m = 0 /\ n = 0 /\ TickersFound ->
              a.query_type = "finance" /\ a.confidence = JNum(70)
         [] OTHER -> a.query_type = "rag" /\ a.confidence = JNum(50)

\* C4 amended: market at min(0.9, m/5) when m > n; retrieval when n > m;
\* market at 0.7 when the scores tie, at zero or at any other value, and a
\* ticker was found; retrieval at 0.5 when they tie and none was found.
C4_AnyTie ==
  ka_pc = "returned" =>
    LET m == MarketCount
        n == NarrativeCount
        a == ka_analysis
    IN CASE m > n /\ m > 0 ->
              /\ a.query_type = "finance"
              /\ a.confidence = JNum(Min(90, 20 * m))
              /\ a.confidence.v > 0
         [] n > m /\ n > 0 -> a.query_type = "rag"
         [] m = n /\ TickersFound ->
              a.query_type = "finance" /\ a.confidence = JNum(70)
         [] OTHER -> a.query_type = "rag" /\ a.confidence = JNum(50)

\* C4 witness: the scores tie above zero and a ticker was found.
C4_Witness ==
  ka_pc = "returned" /\ MarketCount = NarrativeCount /\ MarketCount > 0 /\ TickersFound

-----------------------------------------------------------------------------
(* Properties of the singleton getters (SpecSingleton)                      *)

\* C5: each singleton is constructed at most once, its global is never
\* assigned again once set, and all requests that call the same getter,
\* the concurrent first ones included, receive the same instance.
C5_SingleConstruction ==
  /\ \A g \in Getters : sg_built[g] <= 1 /\ ~sg_replaced[g]
  /\ \A r1, r2 \in Requests :
       (sg_getter[r1] = sg_getter[r2] /\ sg_pc[r1] = "done" /\ sg_pc[r2] = "done")
          => sg_got[r1] = sg_got[r2]

\* --- the retry loops ---

AllCallsFailed == \A i \in DOMAIN rt_log : rt_log[i] = "APIError"

C7_MalformedBodyRetried ==
  (rt_component = "extract" /\ rt_pc = "returned" /\ rt_last.kind = "text")
     => rt_calls = max_retries

IsExtractedIntent(r) ==
  /\ DOMAIN r = {"companies", "years"}
  /\ \A i \in DOMAIN r.companies :
       \A k \in DOMAIN r.companies[i] : r.companies[i][k] \in LowerLetters
  /\ \A i \in DOMAIN r.years : r.years[i] \in Int

\* C8: extract never raises: whatever the completion service does on each
\* attempt (the call fails, the body is no JSON, the JSON is no object, a
\* field has the wrong type) and for every max_retries >= 0, no exception
\* leaves extract and what it returns is an ExtractedIntent.
C8_ExtractNeverRaises ==
  rt_component = "extract" =>
     /\ rt_pc # "raised"
     /\ rt_pc = "returned" => IsExtractedIntent(rt_result)

C8_Witness ==
  /\ rt_component = "extract" /\ rt_pc = "returned"
  /\ Len(rt_log) = 3
  /\ rt_log[1] = "APIError" /\ rt_log[2] = "AttributeError" /\ rt_log[3] = "ValueError"
  /\ rt_result = EmptyIntent

\* C9: every result classify returns has text = TRUE: after a successful
\* parse whatever the response says for text, for a blank question, and when
\* the retries are exhausted.
C9_TextAlwaysTrue ==
  (rt_component = "classify" /\ rt_pc = "returned") => rt_result.text = TRUE

C9_Witness ==
  /\ rt_component = "classify" /\ rt_pc = "returned"
  /\ rt_log # <<>> /\ rt_log[Len(rt_log)] = "ok"
  /\ rt_last.kind = "body" /\ rt_last.object.text = JBool(FALSE)
  /\ rt_result.text = TRUE /\ rt_result.recommendation = TRUE

\* --- the document filter ---

\* C10: when the query of the document index fails, filter_by_intent does
\* not raise and returns the fallback result: at most 10 documents, tagged
\* as the recent-documents fallback in filter_applied, with the intent's
\* companies and years in companies_found and years_found.
C10_IndexFailureFallsBack ==
  (fl_index_fails /\ fl_pc # "call") =>
     /\ fl_pc = "returned"
     /\ fl_result.filter_applied.tag = "Recent documents fallback"
     /\ Len(fl_result.documents) <= RecentLimit
     /\ fl_result.companies_found = fl_intent.companies
     /\ fl_result.years_found = fl_intent.years

\* C11: a query of the index that succeeds and matches no document gives an
\* empty document set with total_found = 0 and a filter_applied that is not
\* the fallback tag, and a query that fails gives the fallback tag: the
\* FilterResult carries the fallback tag exactly when the query failed.
C11_NoMatchToldFromFailure ==
  fl_pc # "call" =>
     /\ fl_pc = "returned"
     /\ (fl_result.filter_applied.tag = "Recent documents fallback") <=> fl_index_fails
     /\ (~fl_index_fails /\ fl_result.documents = <<>>) => fl_result.total_found = 0

-----------------------------------------------------------------------------
(* Properties of the retrieval (SpecRetrieve)                               *)

ChunkSimilarity(c) == IF rv_entry = "retrieve" THEN c.similarity_score ELSE c.similarity

CandidateFilenames ==
  {IF is_metadata_id(doc_ids_of(rv_documents)[i])
   THEN replace_metadata(doc_ids_of(rv_documents)[i])
   ELSE doc_ids_of(rv_documents)[i] : i \in DOMAIN doc_ids_of(rv_documents)}

NoCandidateHasId == \A i \in DOMAIN rv_documents : rv_documents[i].id = <<>>

\* C12: Retriever.retrieve with no candidate document, or with candidates
\* none of which has an id, returns chunks = [], total_chunks = 0 and
\* avg_similarity = 0.0 and makes no query of the search engine; and
\* RAGService._retrieve_chunks with no candidate document returns no chunk
\* and makes no query either.
C12_NoCandidatesNoSearch ==
  rv_pc = "returned" =>
     /\ (rv_entry = "retrieve" /\ NoCandidateHasId) =>
           /\ rv_result = [chunks |-> <<>>, total_chunks |-> 0, avg_similarity |-> F(0, 1)]
           /\ rv_queries = <<>>
     /\ (rv_entry = "retrieve_chunks" /\ rv_documents = <<>>) =>
           /\ rv_result.chunks = <<>>
           /\ rv_queries = <<>>

C12_Witness ==
  /\ rv_pc = "returned" /\ rv_entry = "retrieve"
  /\ Len(rv_documents) = 2 /\ NoCandidateHasId
  /\ rv_store # <<>> /\ rv_engine = "up"
  /\ rv_queries = <<>> /\ rv_result.total_chunks = 0

\* C13: every chunk returned by a retrieval scoped to a candidate set that
\* is not empty belongs to one of the candidate documents, also when the
\* scoped search finds no hit.
C13_ChunksOfCandidates ==
  (rv_pc = "returned" /\ doc_ids_of(rv_documents) # <<>>) =>
     \A i \in DOMAIN rv_result.chunks :
        <<rv_result.chunks[i].metadata.filename>> \in CandidateFilenames

\* C15: every chunk of a retrieval result has a similarity of at least the
\* threshold, and every query of the search engine asks for top_k hits: the
\* threshold is no part of the query and is applied to the hits it returns.
C15_ThresholdAfterSearch ==
  rv_pc = "returned" =>
     /\ \A i \in DOMAIN rv_result.chunks :
           f_le(rv_threshold, ChunkSimilarity(rv_result.chunks[i]))
     /\ \A i \in DOMAIN rv_queries :
           /\ rv_queries[i].n_results = rv_top_k
           /\ DOMAIN rv_queries[i] = {"n_results", "where"}
     /\ Len(rv_raw) <= rv_top_k

C15_Witness ==
  /\ rv_pc = "returned" /\ rv_entry = "retrieve"
  /\ rv_threshold = F(1, 2) /\ rv_top_k = 10
  /\ Len(rv_queries) = 1
  /\ rv_result.chunks # <<>>
  /\ \E i \in DOMAIN rv_raw :
        /\ ~is_metadata_id(rv_raw[i].id)
        /\ strip(rv_raw[i].document) # <<>>
        /\ f_lt(similarity_of(rv_raw[i].distance), rv_threshold)
  /\ Len(rv_result.chunks) < Len(rv_raw)

-----------------------------------------------------------------------------
(* Properties of the similarity (SpecSimilarity)                            *)

\* 1 - d limited to [0, 1], for a distance d = n/den
ClampedOneMinus(d) ==
  IF d.num >= d.den THEN F(0, 1)
  ELSE IF d.num <= 0 THEN F(1, 1)
  ELSE F(d.den - d.num, d.den)

\* C14: the similarity computed for any raw distance d lies in [0, 1]; for
\* d <= 2 it is 1 - d limited to [0, 1], for larger d it is 1/(1 + d); d = 0
\* gives exactly 1.0 and d = 2 exactly 0.0.
C14_SimilarityInUnitInterval ==
  sm_pc = "computed" =>
     /\ f_le(F(0, 1), sm_similarity) /\ f_le(sm_similarity, F(1, 1))
     /\ (sm_distance.kind = "num" /\ sm_distance.num <= 2 * sm_distance.den) =>
           f_eq(sm_similarity, ClampedOneMinus(sm_distance))
     /\ (sm_distance.kind = "num" /\ sm_distance.num > 2 * sm_distance.den) =>
           sm_similarity.num * (sm_distance.den + sm_distance.num)
              = sm_distance.den * sm_similarity.den
     /\ (sm_distance.kind = "num" /\ sm_distance.num = 0) => f_eq(sm_similarity, F(1, 1))
     /\ (sm_distance.kind = "num" /\ sm_distance.num = 2 * sm_distance.den) =>
           f_eq(sm_similarity, F(0, 1))

C14_Witness ==
  /\ sm_pc = "computed"
  /\ sm_distance.kind = "num" /\ sm_distance.num = 2 * sm_distance.den
  /\ sm_similarity.kind = "num" /\ sm_similarity.num = 0

-----------------------------------------------------------------------------
(* Properties of the horizon parsing (SpecHorizon)                          *)

\* the last calendar day of quarter q of year y
QuarterEnd(q, y) == Date(y, 3 * q, DaysInMonth(y, 3 * q))

\* the business days (Monday to Friday) from day a up to, not including, day b
BusinessDays(a, b) == Cardinality({day \in a..(b - 1) : day % 7 \in 0..4})

\* C16: for the expression naming quarter q and year y, the parsed
\* target_date is the last calendar day of that quarter: 31 March, 30 June,
\* 30 September or 31 December of y.
C16_QuarterEndIsTarget ==
  \A q \in 1..4, y \in QuarterYears :
     (hz_pc # "call" /\ hz_horizon = QuarterText(q, y)) =>
        /\ hz_outcome.status = "ok"
        /\ hz_outcome.value.target_date = QuarterEnd(q, y)

\* C17: for quarter and month expressions the step count is the number of
\* business days from today to target_date, and 10 when that number is less
\* than 10, target_date today or in the past included; for "N months" the
\* target_date is today + 30 * N days.
C17_StepsAreBusinessDaysFloored ==
  (hz_pc # "call"
     /\ hz_horizon \in QuarterExpressions \cup MonthExpressions \cup {LowerCaseQuarter}) =>
     /\ hz_outcome.status = "ok"
     /\ hz_outcome.value.steps >= 10
     /\ hz_outcome.value.steps =
          (IF BusinessDays(hz_today, hz_outcome.value.target_date) < 10 THEN 10
           ELSE BusinessDays(hz_today, hz_outcome.value.target_date))
     /\ \A n \in 0..MaxMonths :
          hz_horizon = MonthsText(n) => hz_outcome.value.target_date = hz_today + 30 * n

C17_Witness ==
  /\ hz_pc = "returned"
  /\ hz_horizon = QuarterText(2, 2025)
  /\ hz_outcome.value.target_date < hz_today
  /\ hz_outcome.value.steps = 10

\* C18: an expression that names neither a quarter with a year nor a number
\* of months is parsed without raising, to target_date = today + 90 days and
\* 60 steps.
C18_UnparsableGetsDefault ==
  (hz_pc # "call" /\ hz_horizon \in OtherExpressions \cup MalformedExpressions) =>
     /\ hz_outcome.status = "ok"
     /\ hz_outcome.value = Horizon(hz_today + 90, 60)

-----------------------------------------------------------------------------
(* Properties of the mixed branch (SpecRouter)                              *)

MarketCalls == {"smart_finance_router.route_query", "finance_service.get_multiple_stocks"}

\* the request ended in the mixed branch
MixedDone == rq_pc = "done" /\ rq_dispatched = <<"mixed">>

\* ... and _combine_answers produced its answer
MixedCombined == MixedDone /\ rq_unrecovered = "none"

\* the answers RAGService.process_query can return
Narratives == {process_query(out).answer : out \in RagOutcomes}

\* what follows the text n at the head of the answer a
AfterNarrative(a, n) == SubSeq(a, Len(n) + 1, Len(a))

StartsWith(a, n) == Len(n) <= Len(a) /\ SubSeq(a, 1, Len(n)) = n

MarketHeadings == {"Financial Analysis: ", "Current Market Data: "}

\* C19: in the mixed branch the one retrieval call has returned before any
\* call of the market side is made, and the combined answer is the retrieval
\* narrative followed by the market content (the router's analysis or the
\* quote summary), when there is any.
C19_RetrievalThenMarket ==
  /\ MixedDone =>
       /\ \E i \in DOMAIN rq_calls :
            /\ rq_calls[i] = "rag_service.process_query"
            /\ \A j \in DOMAIN rq_calls :
                 /\ rq_calls[j] = "rag_service.process_query" => j = i
                 /\ rq_calls[j] \in MarketCalls => i < j
  /\ MixedCombined =>
       \E n \in Narratives :
         /\ StartsWith(rq_result.answer, n)
         /\ LET rest == AfterNarrative(rq_result.answer, n)
            IN /\ rest # <<>> => rest[1] \in MarketHeadings
               /\ rest = <<>> <=>
                    rq_market.chart_generation \in {"not_run", "raised"} /\ ~rq_market.quotes

\* C19 witness: the mixed branch ended with an answer that carries both the
\* narrative and the router's market content, both market calls made.
C19_Witness ==
  /\ MixedCombined
  /\ rq_market.chart_generation = "no_chart"
  /\ Len(rq_result.answer) > 1
  /\ \E i, j \in DOMAIN rq_calls :
       /\ rq_calls[i] = "smart_finance_router.route_query"
       /\ rq_calls[j] = "finance_service.get_multiple_stocks"

\* C20: in the mixed branch, when the chart generation raised or returned no
\* chart and get_multiple_stocks found a quote for at least one symbol, the
\* answer carries the quote summary after the retrieval narrative.
C20_QuoteSummaryWhenNoChart ==
  (MixedDone /\ rq_market.chart_generation \in {"raised", "no_chart"} /\ rq_market.quotes) =>
     \E n \in Narratives :
       /\ StartsWith(rq_result.answer, n)
       /\ \E k \in DOMAIN AfterNarrative(rq_result.answer, n) :
            AfterNarrative(rq_result.answer, n)[k] = "Current Market Data: "

-----------------------------------------------------------------------------
(* Properties of the parsers inside the retry loops (SpecRetry)             *)

\* the body is an object whose companies are well typed and whose years are
\* a list holding a value int() does not accept
HasUncoercibleYear(resp) ==
  /\ resp.kind = "object"
  /\ lower_each(get(resp.companies, JList(<<>>))).status = "ok"
  /\ LET years == get(resp.years, JList(<<>>))
     IN /\ years.t = "list"
        /\ \E i \in DOMAIN years.v : int_of(years.v[i]).status = "raise"

\* C29: when a year of the last response cannot be coerced to an integer,
\* extract counts that attempt as failed: it goes on with the next attempt
\* while one remains, and it has returned only after max_retries attempts,
\* with the empty intent.
C29_UncoercibleYearRetried ==
  (rt_component = "extract" /\ HasUncoercibleYear(rt_last)) =>
     /\ rt_pc # "raised"
     /\ rt_pc = "loop" => (rt_attempt = rt_calls /\ rt_attempt < max_retries)
     /\ rt_pc = "returned" => (rt_calls = max_retries /\ rt_result = EmptyIntent)

\* the last body was the text of a JSON list
LastBodyIsList == rt_last.kind = "body" /\ rt_last.payload = ListText

-----------------------------------------------------------------------------
(* Properties of the market side of the router (SpecRouter)                 *)

InCalls(call, calls) == \E i \in DOMAIN calls : calls[i] = call

\* the request ended in the market branch
FinanceDone == rq_pc = "done" /\ rq_dispatched = <<"finance">>

QuoteAnswer == <<"<answer from the quotes>">>
MarketSummaryAnswer == <<"<market summary>">>

\* C21: in the mixed branch, when the forecast of the finance router failed,
\* the result has source mixed and its answer holds the answer of the
\* retrieval.
C21_ForecastFailureKeepsNarrative ==
  (MixedDone /\ rq_market.forecast = "failed") =>
     /\ rq_result.source = "mixed"
     /\ \E n \in Narratives : StartsWith(rq_result.answer, n)

\* C22: in the market branch, when the forecast failed, the result reports
\* the failure: it holds an apology and no answer taken from the quote
\* lookup or the market summary, which are not called.
C22_ForecastFailureReported ==
  (FinanceDone /\ rq_market.forecast = "failed") =>
     /\ Apologetic(rq_result.answer)
     /\ ~InCalls("finance_service.get_multiple_stocks", rq_calls)
     /\ ~InCalls("finance_service.get_market_summary", rq_calls)

\* C25: in the market branch, when the classification of the finance intent
\* failed, the request ends with source finance and without error, its
\* answer taken from the quote lookup of the analysed symbols (or, no quote
\* found, from the market summary).
C25_ClassifierFailureFallsBack ==
  (FinanceDone /\ ~rq_market.classified) =>
     /\ rq_result.source = "finance"
     /\ rq_unrecovered = "none"
     /\ Truthy(rq_analysis.symbols) =>
          InCalls("finance_service.get_multiple_stocks", rq_calls)
     /\ rq_result.answer = IF rq_market.quotes THEN QuoteAnswer ELSE MarketSummaryAnswer

-----------------------------------------------------------------------------
(* Properties of the retrieval service and its answer generation (SpecRag)  *)

\* a call of one of the two entry points of the answer generation has ended
GaEnded == ga_pc \in {"returned", "raised"}

\* C26: without chunks no entry point of the answer generation makes a
\* completion call, and each returns the fixed message that no relevant
\* information was found.
C26_NoChunksNoCompletion ==
  (GaEnded /\ ga_chunks = <<>>) =>
     /\ ga_calls = <<>>
     /\ ga_pc = "returned" /\ ga_answer = NoRelevantInformation

\* the client could not be built, or the completion call made failed
GenerationFailed ==
  ga_client = "fails" \/ (ga_calls # <<>> /\ ga_completion = "fails")

\* process_query reached its answer generation, which failed
RagGenerationFailed ==
  /\ rg_pc = "returned"
  /\ InCalls("vector_store.similarity_search_with_filter", rg_calls)
  /\ rg_client = "fails" \/ (InCalls("completion:answer", rg_calls) /\ rg_completion = "fails")

\* C27: no exception leaves an entry point of the answer generation; when
\* the client cannot be built or the completion call fails, the call returns
\* the fixed apology, and process_query goes on with it: the apology is the
\* answer of its result, which is no error result.
C27_GenerationNeverRaises ==
  /\ GaEnded =>
       /\ ga_pc = "returned"
       /\ GenerationFailed => ga_answer = GenerationApology
  /\ RagGenerationFailed =>
       /\ rg_result.answer = GenerationApology
       /\ rg_result.source = "rag"
       /\ rg_result.data.filter_applied # "Error"

\* C27 witness: the completion call of _generate_answer failed inside
\* process_query, whose result carries the apology.
C27_Witness ==
  /\ RagGenerationFailed /\ rg_client = "ok"
  /\ InCalls("completion:answer", rg_calls)
  /\ rg_result.answer = GenerationApology

\* the identifier under which get_document_by_id looks a document up
FileLevelId(doc_id) ==
  IF doc_id[1] = "metadata_" THEN doc_id ELSE <<"metadata_">> \o doc_id

IndexedIds == {rg_collection[i].id : i \in DOMAIN rg_collection}

\* the selected identifiers that name a file of the index, in their order
SelectedInIndex ==
  SelectSeq([i \in DOMAIN rg_selected |-> FileLevelId(rg_selected[i])],
            LAMBDA id : id \in IndexedIds)

C24_AbsentSelectionNoDocuments ==
  (rg_pc = "returned" /\ rg_selected # <<>> /\ SelectedInIndex = <<>>) =>
     /\ rg_documents = <<>>
     /\ rg_result.answer = NoDocumentsAnswer
     /\ rg_result.source = "rag"
     /\ rg_result.data.filter_applied # "Error"
     /\ rg_queries = <<>>
     /\ ~InCalls("vector_store.similarity_search_with_filter", rg_calls)
     /\ ~InCalls("completion:answer", rg_calls)

\* C24 witness: doc_1 alone was selected while the index holds other files.
C24_Witness ==
  /\ rg_pc = "returned" /\ rg_selected = << <<"doc_1">> >>
  /\ rg_collection # <<>> /\ rg_engine = "up"
  /\ rg_result.answer = NoDocumentsAnswer

\* C28: every company name in a where predicate that process_query asks the
\* index is in lower case.
C28_CompaniesLowerCased ==
  \A i \in DOMAIN rg_wheres :
     \A k \in DOMAIN rg_wheres[i].company.values :
        rg_wheres[i].company.values[k] = lower(rg_wheres[i].company.values[k])

-----------------------------------------------------------------------------
(* The QueryAnalysis of a request (SpecRouter)                              *)

\* the query types of a QueryAnalysis
QueryTypes == {"rag", "finance", "mixed", "fallback"}

\* a confidence in [0,1], in hundredths
InUnitInterval(confidence) ==
  confidence.t = "num" /\ confidence.v >= 0 /\ confidence.v <= 100

\* C31: every QueryAnalysis that query-type analysis produced, on the
\* completion path and on the keyword path, has a confidence in [0,1] and a
\* query_type of the closed set of known types.
C31_AnalysisInDomain ==
  Analysed =>
    /\ InUnitInterval(rq_analysis.confidence)
    /\ rq_analysis.query_type \in QueryTypes

-----------------------------------------------------------------------------
(* The where predicate of an intent (SpecPredicate)                         *)

\* the constraint one dimension of an intent puts on a document: none for
\* no value, equality for one value, inclusion for several
Described(values) ==
  CASE Len(values) = 0 -> [op |-> "none", values |-> <<>>]
    [] Len(values) = 1 -> [op |-> "eq", values |-> values]
    [] OTHER -> [op |-> "in", values |-> values]

DescribedPredicate(companies, years) ==
  [company |-> Described(companies), year |-> Described(years)]

\* value is one of values, or there are no values
Among(values, value) ==
  values = <<>> \/ \E i \in DOMAIN values : values[i] = value

\* the file-level items of a collection that satisfy both dimensions
Satisfying(collection, companies, years) ==
  {collection[i].id : i \in {j \in DOMAIN collection :
      /\ collection[j].id[1] = "metadata_"
      /\ Among(companies, collection[j].metadata.company)
      /\ Among(years, collection[j].metadata.year)}}

IdsOf(documents) == {documents[i].id : i \in DOMAIN documents}

\* the part of C32 about DocumentFilter.filter_by_intent
FilterPredicateDescribed ==
  fl_pc = "returned" =>
    /\ fl_where = <<DescribedPredicate(fl_intent.companies, fl_intent.years)>>
    /\ ~fl_index_fails =>
         IdsOf(fl_result.documents)
           = Satisfying(fl_collection, fl_intent.companies, fl_intent.years)

\* _extract_intent returned an object and _filter_by_intent queried the index
IntentQueried == rg_pc = "returned" /\ rg_intent.t = "dict"

IntentNamesNothing == rg_intent.companies = <<>> /\ rg_intent.years = <<>>

\* the where predicate and the candidates of RAGService are those of the
\* intent
RagPredicateDescribed ==
  /\ rg_wheres = <<DescribedPredicate(rg_intent.companies, rg_intent.years)>>
  /\ rg_engine # "get_fails" =>
       IdsOf(rg_documents)
         = Satisfying(rg_collection, rg_intent.companies, rg_intent.years)

\* C32 as stated: the predicate built from an intent is, per dimension,
\* equality for one value, inclusion for several and no constraint for
\* none, and a document must satisfy both dimensions; in DocumentFilter and
\* in RAGService.
C32_PredicateOfIntent ==
  /\ FilterPredicateDescribed
  /\ IntentQueried => RagPredicateDescribed

\* C32 amended: the same in DocumentFilter for every intent and in
\* RAGService for an intent that names a company or a year; for an intent
\* that names neither, RAGService asks the index for the years 2024, 2023
\* and 2022 and puts no constraint on the company.
C32_PredicateOfNamedIntent ==
  /\ FilterPredicateDescribed
  /\ (IntentQueried /\ ~IntentNamesNothing) => RagPredicateDescribed
  /\ (IntentQueried /\ IntentNamesNothing) =>
       rg_wheres = <<DescribedPredicate(<<>>, <<2024, 2023, 2022>>)>>

\* C32 witness: RAGService queried for two companies and one year and found
\* the files of that year.
C32_Witness ==
  /\ IntentQueried
  /\ rg_intent.companies = <<Apple, Tesla>> /\ rg_intent.years = <<2023>>
  /\ rg_wheres[1].company.op = "in" /\ rg_wheres[1].year.op = "eq"
  /\ Cardinality(IdsOf(rg_documents)) = 2

-----------------------------------------------------------------------------
(* The order of the chunks of a RetrievalResult (SpecRetrieve)              *)

Retrieved == rv_pc = "returned" /\ rv_entry = "retrieve"

\* the hits of the search that make a chunk of the result, in the order the
\* engine returned them
EngineChunks ==
  LET kept == SelectSeq(rv_raw, LAMBDA hit :
                 /\ ~is_metadata_id(hit.id)
                 /\ strip(hit.document) # <<>>
                 /\ f_le(rv_threshold, similarity_of(hit.distance)))
  IN [i \in DOMAIN kept |->
        [content |-> kept[i].document,
         similarity_score |-> similarity_of(kept[i].distance),
         metadata |-> kept[i].metadata,
         chunk_id |-> kept[i].id,
         company |-> kept[i].metadata.company,
         year |-> kept[i].metadata.year]]

\* the chunks of a sequence that have the similarity of chunk c
OfSimilarity(chunks, c) ==
  SelectSeq(chunks, LAMBDA x : f_eq(x.similarity_score, c.similarity_score))

\* C33: the chunks of a RetrievalResult are ordered by similarity
\* descending, and the chunks of one similarity are those the search engine
\* returned with it, in the order it returned them.
C33_RankedBySimilarity ==
  Retrieved =>
    /\ \A i, j \in DOMAIN rv_result.chunks :
          i < j => ~f_lt(rv_result.chunks[i].similarity_score,
                         rv_result.chunks[j].similarity_score)
    /\ Len(rv_result.chunks) = Len(EngineChunks)
    /\ \A i \in DOMAIN EngineChunks :
          OfSimilarity(rv_result.chunks, EngineChunks[i])
            = OfSimilarity(EngineChunks, EngineChunks[i])

\* C33 witness: the engine returned a hit of lower similarity before one of
\* higher similarity, and two different chunks of equal similarity; the
\* result has the higher one first and the equal ones in the engine's order.
C33_Witness ==
  /\ Retrieved
  /\ rv_result.chunks # EngineChunks
  /\ \E i, j \in DOMAIN rv_result.chunks :
        /\ i < j
        /\ f_eq(rv_result.chunks[i].similarity_score, rv_result.chunks[j].similarity_score)
        /\ rv_result.chunks[i] # rv_result.chunks[j]

-----------------------------------------------------------------------------
(* The symbols of the keyword analysis (SpecKeyword)                        *)

\* C34: the symbols of the keyword analysis are the tokens of the question
\* written in upper case and 1 to 5 letters long, in order of appearance;
\* no symbol comes from a word the question has in lower case.
C34_SymbolsAreUpperCaseTokens ==
  ka_pc = "returned" =>
    /\ ka_analysis.symbols = JList(find_symbols(ka_question))
    /\ \A i \in DOMAIN ka_analysis.symbols.v :
          IsSubstring(ka_analysis.symbols.v[i], ka_question)

-----------------------------------------------------------------------------
(* The context of the answer generation (SpecRag)                           *)

\* a generator returned after making its prompt
ContextMade == ga_pc = "returned" /\ ga_context # NoContext

\* the context has an entry for each of the first five chunks that has a
\* text, in their order, and for no other chunk
ContextOfFirstFive ==
  /\ Len(ga_context) <= 5
  /\ \A k \in DOMAIN ga_context :
        /\ ga_context[k].number \in 1..Min(5, Len(ga_chunks))
        /\ ga_context[k].content = ga_chunks[ga_context[k].number].content
        /\ \A l \in DOMAIN ga_context : k < l => ga_context[k].number < ga_context[l].number
  /\ \A n \in 1..Min(5, Len(ga_chunks)) :
        strip(ga_chunks[n].content) # <<>> =>
           \E k \in DOMAIN ga_context : ga_context[k].number = n

\* every entry carries the company and the year of the document its chunk
\* comes from
ContextTagged ==
  \A k \in DOMAIN ga_context :
     LET chunk == ga_chunks[ga_context[k].number]
     IN /\ ga_context[k].company = chunk.metadata.company
        /\ ga_context[k].year = chunk.metadata.year

\* C35: the context of the answer generation holds the first 5 chunks at
\* most, each entry tagged with the company and the year of the source
\* document of its chunk, in RAGService._generate_answer (raw search hits)
\* and in ResponseGenerator.generate_answer (processed chunks).
C35_ContextBoundedAndTagged ==
  ContextMade => (ContextOfFirstFive /\ ContextTagged)

-----------------------------------------------------------------------------
(* The attempt that succeeds (SpecRetry)                                    *)

\* an attempt of the call ended without exception
Succeeded == \E i \in DOMAIN rt_log : rt_log[i] = "ok"

\* what _parse_response makes of the last completion
ParsedFromLast ==
  IF rt_component = "extract" THEN extract_parse_response(rt_last).value
  ELSE classify_parse_response(rt_last).value

\* C36: in extract and classify no completion call follows an attempt that
\* succeeded: the call has then returned, the number of completion calls is
\* the index of that attempt, at most max_retries, and the result is the one
\* parsed from its completion.
C36_NoCallAfterSuccess ==
  /\ rt_calls = Len(rt_log)
  /\ \A i \in DOMAIN rt_log : rt_log[i] = "ok" => i = Len(rt_log)
  /\ Succeeded =>
       /\ rt_pc = "returned"
       /\ rt_calls >= 1 /\ rt_calls <= max_retries
       /\ rt_last.kind # "error"
       /\ rt_result = ParsedFromLast

\* C36 witness: the first attempt failed and the second succeeded with one
\* attempt left; two completion calls were made and the result is not the
\* default.
C36_Witness ==
  /\ Succeeded /\ rt_pc = "returned"
  /\ max_retries = 3 /\ rt_calls = 2 /\ Len(rt_log) = 2 /\ rt_log[1] # "ok"
  /\ rt_result # default_result(rt_component)

-----------------------------------------------------------------------------
(* route_query ends (SpecRouterLive)                                        *)

Sources == {"rag", "finance", "mixed", "error"}

\* C37: whatever collaborator calls fail, every call of route_query ends:
\* it raises nothing and returns one RouterResult, which nothing changes
\* afterwards, after at most four calls of its collaborators (the analysis
\* completion, process_query, the finance router and the quote lookup or the
\* market summary).
C37_RouteQueryReturns ==
  /\ <>(rq_pc = "done")
  /\ [](~rq_raised)
  /\ [](rq_pc = "done" => rq_result.source \in Sources)
  /\ [](Len(rq_calls) <= 4)
  /\ [][rq_pc = "done" => UNCHANGED <<rq_result, rq_calls>>]_vars

\* C37 witness: the analysis completion failed, then process_query failed,
\* and the request ended with a result.
C37_Witness ==
  /\ rq_pc = "done"
  /\ rq_response.kind = "error" /\ rq_unrecovered = "rag"
  /\ rq_result.source = "rag" /\ Len(rq_calls) = 2

-----------------------------------------------------------------------------
(* The order of similarities (SpecSimilarity)                               *)

\* C38: the conversion of a distance into a similarity is monotone: a
\* distance that is not smaller has a similarity that is not larger.
C38_SimilarityMonotone ==
  sm_pc = "computed" =>
    \A d2 \in Distances :
       f_le(sm_distance, d2) => f_le(similarity_of(d2), sm_similarity)

-----------------------------------------------------------------------------
(* The candidates of a question that names nothing (SpecRag)                *)

\* process_query returned for a request without selection whose intent,
\* extracted or put in place of a failed extraction, names no company and
\* no year
NothingNamedNorSelected ==
  /\ rg_pc = "returned" /\ rg_selected = <<>>
  /\ rg_intent.t = "dict" /\ IntentNamesNothing

\* the file-level items of the index of the years 2022 to 2024
RecentFiles ==
  {rg_collection[i].id : i \in {j \in DOMAIN rg_collection :
      /\ rg_collection[j].id[1] = "metadata_"
      /\ rg_collection[j].metadata.year \in {2022, 2023, 2024}}}

\* C39: in the retrieval branch, with no document selected and an intent
\* without companies and years (also after a failed extraction), every
\* candidate is a document of 2022, 2023 or 2024, and the candidates are the
\* documents of those years when the index answers.
C39_NothingNamedRecentOnly ==
  NothingNamedNorSelected =>
    /\ \A i \in DOMAIN rg_documents : rg_documents[i].year \in {2022, 2023, 2024}
    /\ rg_engine # "get_fails" => IdsOf(rg_documents) = RecentFiles

\* C39 witness: the client of the extraction could not be built, the index
\* holds a file of 2021, and the candidates are its two files of 2023.
C39_Witness ==
  /\ NothingNamedNorSelected
  /\ rg_client = "fails" /\ ~InCalls("completion:intent", rg_calls)
  /\ \E i \in DOMAIN rg_collection : rg_collection[i].metadata.year = 2021
  /\ Cardinality(IdsOf(rg_documents)) = 2

====
